---- MODULE Spec2Model ----
(***************************************************************************)
(* Habit Architect: study sprints, habits and focus sessions.              *)
(*                                                                         *)
(* The store is the three tables of app/models (sprints, habits,          *)
(* sessions) in the SQLite database of app/db.py.  Every request handler   *)
(* of app/routes (API, HTML form and demo variants) is one action; the     *)
(* two aggregate queries (list_sprint_overview, sprint_stats) are          *)
(* operators over the store, evaluated the way the SQL evaluates them.     *)
(* The two pages of app/routes/ui.py (sprints_page, sprint_detail_page)    *)
(* only read the store and render a template; they have no action.        *)
(***************************************************************************)
EXTENDS Integers, Sequences, FiniteSets, TLC

VARIABLES
    sprints,    \* table "sprints":  id -> [status]
    habits,     \* table "habits":   id -> [sprint_id, target_sessions_per_day]
    sessions,   \* table "sessions": id -> the columns of models.Session
    resp,       \* the request just served and its response
    nreq,       \* number of requests served so far
    inflight    \* requests between two of their steps: request number -> its state

vars == <<sprints, habits, sessions, resp, nreq, inflight>>

-----------------------------------------------------------------------------
(* Bounds and input sets                                                   *)

\* Number of requests served in one behaviour.
MaxRequests == 3

\* Python None / SQL NULL in an integer-valued column or field.
NULL == -1

SprintStatus == {"planned", "active", "completed", "cancelled"}
SessionStatus == {"planned", "done", "skipped"}

\* Sprint statuses a create request carries.
SprintStatusInputs == {"planned", "completed"}

\* Planned durations (minutes) a create/plan request carries.
PlannedInputs == {30, 50}

\* Ids a request can address in a table: every row, and one id with no row.
RECURSIVE SetMax(_)
SetMax(S) ==
    IF S = {} THEN 0
    ELSE LET x == CHOOSE y \in S : TRUE
             m == SetMax(S \ {x})
         IN  IF x > m THEN x ELSE m

\* SQLite rowid allocation for an INTEGER PRIMARY KEY without AUTOINCREMENT:
\* one more than the largest id in the table, 1 for an empty table.
NextId(tbl) == SetMax(DOMAIN tbl) + 1

IdInputs(tbl) == DOMAIN tbl \cup {NextId(tbl)}

\* Path ids an API request can carry: those, and 0, which Path(gt=0) refuses.
PathIdInputs(tbl) == {0} \cup IdInputs(tbl)

\* db.add(row); db.commit()
Insert(tbl, row) ==
    [i \in DOMAIN tbl \cup {NextId(tbl)} |-> IF i = NextId(tbl) THEN row ELSE tbl[i]]

\* DELETE of the rows with the given ids
Remove(tbl, ids) == [i \in DOMAIN tbl \ ids |-> tbl[i]]

EmptyTable == [i \in {} |-> NULL]

\* The optional columns of a session that a SessionCreate body carries
\* (status, actual_start, actual_duration_min, notes, difficulty, mood).
SessionCreateInputs ==
    { [status |-> "planned", actual_start |-> NULL, actual_duration_min |-> NULL,
       notes |-> NULL, difficulty |-> NULL, mood |-> NULL],
      [status |-> "done", actual_start |-> 1, actual_duration_min |-> 45,
       notes |-> 1, difficulty |-> 2, mood |-> 5],
      [status |-> "done", actual_start |-> NULL, actual_duration_min |-> NULL,
       notes |-> NULL, difficulty |-> NULL, mood |-> NULL],
      [status |-> "skipped", actual_start |-> NULL, actual_duration_min |-> NULL,
       notes |-> NULL, difficulty |-> 5, mood |-> 1],
      [status |-> "planned", actual_start |-> 1, actual_duration_min |-> 20,
       notes |-> NULL, difficulty |-> 4, mood |-> NULL] }

\* SessionCreate bodies <<planned_duration_min, optional columns>> with a
\* value out of range: a planned duration of 0, an actual duration of 0,
\* a difficulty of 6 with a mood of 0.
InvalidSessionBodies ==
    { <<0, [status |-> "planned", actual_start |-> NULL, actual_duration_min |-> NULL,
            notes |-> NULL, difficulty |-> NULL, mood |-> NULL]>>,
      <<30, [status |-> "done", actual_start |-> 1, actual_duration_min |-> 0,
             notes |-> NULL, difficulty |-> NULL, mood |-> NULL]>>,
      <<30, [status |-> "planned", actual_start |-> NULL, actual_duration_min |-> NULL,
             notes |-> NULL, difficulty |-> 6, mood |-> 0]>> }

\* The SessionCreate bodies a request carries
SessionBodyInputs == (PlannedInputs \X SessionCreateInputs) \cup InvalidSessionBodies

\* The SessionCreate bodies and habit ids of the concurrent requests: one
\* body that passes validation and one with a planned duration of 0; no
\* habit or habit 1.
ConcurrentBodyInputs ==
    { <<planned, [status |-> "planned", actual_start |-> NULL, actual_duration_min |-> NULL,
                  notes |-> NULL, difficulty |-> NULL, mood |-> NULL]>> : planned \in {0, 30} }

ConcurrentHabitInputs == {NULL, 1}

\* SessionCompleteRequest bodies (actual_start and actual_duration_min required).
SessionCompleteInputs ==
    { [actual_start |-> 2, actual_duration_min |-> 40,
       notes |-> NULL, difficulty |-> NULL, mood |-> NULL],
      [actual_start |-> 2, actual_duration_min |-> 25,
       notes |-> 2, difficulty |-> 1, mood |-> 4],
      [actual_start |-> 2, actual_duration_min |-> 0,
       notes |-> NULL, difficulty |-> NULL, mood |-> NULL],
      [actual_start |-> 2, actual_duration_min |-> 25,
       notes |-> NULL, difficulty |-> 0, mood |-> 6] }

\* A notes value of a JSON body that is not a string (a number, a list):
\* the `str | None` field of the schema refuses it.
NotAString == 0

\* SessionSkipRequest.notes; NULL also stands for a request without a body.
SkipNotesInputs == {NULL, 3, NotAString}

\* The status of a SprintStatusUpdate body: the four of the enum, and one
\* that the enum does not have.
StatusBodyInputs == SprintStatus \cup {"paused"}

\* datetime.utcnow() as read by complete_session_ui
NowInputs == {7}

\* target_sessions_per_day of a HabitCreate body, and of the habit form
\* (the form field is a bare int: 0 is a value the handler has to refuse).
HabitTargetInputs == {0, 1}
FormTargetInputs == {0, 1}

\* Habit names: of a HabitCreate body, and of the habit form (" " is blank).
NameInputs == {"read"}
FormNameInputs == {" ", "read"}

\* planned_duration_min of the session form (a bare int: 0 has to be refused).
FormPlannedInputs == {0, 30}

\* notes of the session form; NULL stands for an absent or empty field.
FormNotesInputs == {NULL, 4}

\* planned_start of a create/plan request (hours on an abstract clock).
PlannedStartInputs == {1}

-----------------------------------------------------------------------------
(* Rational results: float(a) / float(b), compared as reduced fractions    *)

RECURSIVE GCD(_, _)
GCD(a, b) == IF b = 0 THEN a ELSE GCD(b, a % b)

\* The quotient a / b (b > 0) as the reduced fraction <<num, den>>.
Frac(a, b) == LET g == GCD(a, b) IN <<a \div g, b \div g>>

\* None where a quotient is expected.
NoValue == <<>>

-----------------------------------------------------------------------------
(* SQL aggregates over the sessions table                                  *)

\* WHERE sessions.sprint_id = sprint_id / GROUP BY sessions.sprint_id
SessionsOf(sprint_id) == {i \in DOMAIN sessions : sessions[i].sprint_id = sprint_id}

RECURSIVE Total(_, _)
Total(ids, col) ==
    IF ids = {} THEN 0
    ELSE LET i == CHOOSE j \in ids : TRUE
         IN  sessions[i][col] + Total(ids \ {i}, col)

\* Variant of SqlCount: counts a nullable column, func.count(Session.habit_id).
SqlCount_HabitColumn(ids) == Cardinality({i \in ids : sessions[i].habit_id # NULL})

\* func.count(Session.id)
SqlCount(ids) == Cardinality(ids)

\* Variant of SqlSum: a row without a value counts with its planned duration.
SqlSum_PlannedForMissing(ids, col) ==
    LET present == {i \in ids : sessions[i][col] # NULL}
    IN  IF ids = {} THEN NULL
        ELSE Total(present, col) + Total(ids \ present, "planned_duration_min")

\* func.sum(column): NULL values are skipped, NULL when nothing is summed.
SqlSum(ids, col) ==
    LET present == {i \in ids : sessions[i][col] # NULL}
    IN  IF present = {} THEN NULL ELSE Total(present, col)

\* func.sum(case((Session.status == st, 1), else_=0)): NULL over no rows.
SqlSumCase(ids, st) ==
    IF ids = {} THEN NULL ELSE Cardinality({i \in ids : sessions[i].status = st})

\* Variant of SqlAvgDone: func.avg(column) without the case on the status.
SqlAvg_AllStatuses(ids, col) ==
    LET present == {i \in ids : sessions[i][col] # NULL}
    IN  IF present = {} THEN NoValue
        ELSE Frac(Total(present, col), Cardinality(present))

\* func.avg(case((Session.status == DONE, column), else_=None)), as float
SqlAvgDone(ids, col) ==
    LET present == {i \in ids : sessions[i].status = "done" /\ sessions[i][col] # NULL}
    IN  IF present = {} THEN NoValue
        ELSE Frac(Total(present, col), Cardinality(present))

\* Python  x or 0  on an optional integer
OrZero(x) == IF x = NULL \/ x = 0 THEN 0 ELSE x

\* func.coalesce(x, 0)
Coalesce0(x) == IF x = NULL THEN 0 ELSE x

-----------------------------------------------------------------------------
(* GET /sprints/{sprint_id}/stats: the dict built for an existing sprint   *)

sprint_stats_result(sprint_id) ==
    LET rows == SessionsOf(sprint_id)
        total_sessions == OrZero(SqlCount(rows))
        done_sessions == OrZero(SqlSumCase(rows, "done"))
        skipped_sessions == OrZero(SqlSumCase(rows, "skipped"))
    IN  [ sprint_id |-> sprint_id,
          total_sessions |-> total_sessions,
          done_sessions |-> done_sessions,
          skipped_sessions |-> skipped_sessions,
          completion_rate |-> IF total_sessions # 0
                              THEN Frac(done_sessions, total_sessions)
                              ELSE Frac(0, 1),
          total_planned_minutes |-> OrZero(SqlSum(rows, "planned_duration_min")),
          total_actual_minutes |-> OrZero(SqlSum(rows, "actual_duration_min")),
          avg_difficulty |-> SqlAvgDone(rows, "difficulty"),
          avg_mood |-> SqlAvgDone(rows, "mood") ]

-----------------------------------------------------------------------------
(* GET /sprints/overview                                                   *)

\* SELECT sprint_id, count(id) FROM habits GROUP BY sprint_id
habit_counts_subquery ==
    [sid \in {habits[h].sprint_id : h \in DOMAIN habits} |->
        Cardinality({h \in DOMAIN habits : habits[h].sprint_id = sid})]

\* Variant of session_stats_subquery: the sessions are grouped after a join
\* with the sprint's habits, so each session counts once per habit.
session_stats_subquery_RawJoin ==
    [sid \in {sessions[s].sprint_id : s \in DOMAIN sessions} |->
        LET n == Cardinality({h \in DOMAIN habits : habits[h].sprint_id = sid})
            times == IF n = 0 THEN 1 ELSE n
        IN  [ sessions_count |-> times * SqlCount(SessionsOf(sid)),
              done_sessions |-> times * SqlSumCase(SessionsOf(sid), "done"),
              total_planned_minutes |->
                  times * SqlSum(SessionsOf(sid), "planned_duration_min"),
              total_actual_minutes |-> SqlSum(SessionsOf(sid), "actual_duration_min") ]]

\* SELECT sprint_id, count, sums FROM sessions GROUP BY sprint_id
session_stats_subquery ==
    [sid \in {sessions[s].sprint_id : s \in DOMAIN sessions} |->
        [ sessions_count |-> SqlCount(SessionsOf(sid)),
          done_sessions |-> SqlSumCase(SessionsOf(sid), "done"),
          total_planned_minutes |-> SqlSum(SessionsOf(sid), "planned_duration_min"),
          total_actual_minutes |-> SqlSum(SessionsOf(sid), "actual_duration_min") ]]

\* A row of a LEFT OUTER JOIN with session_stats_subquery: all NULL without a match.
NullSessionStats ==
    [ sessions_count |-> NULL, done_sessions |-> NULL,
      total_planned_minutes |-> NULL, total_actual_minutes |-> NULL ]

\* Variant of OverviewSprintIds: inner joins, a sprint needs a row in both
\* subqueries.
OverviewSprintIds_InnerJoin ==
    (DOMAIN sprints \cap DOMAIN habit_counts_subquery) \cap DOMAIN session_stats_subquery

\* The sprints the statement returns rows for (sprints LEFT OUTER JOIN both subqueries).
OverviewSprintIds == DOMAIN sprints

\* Variant of OverviewRow: total_actual_minutes coalesced to 0 like the other sums.
OverviewRow_CoalesceActual(id) ==
    LET hc == IF id \in DOMAIN habit_counts_subquery
              THEN habit_counts_subquery[id] ELSE NULL
        ss == IF id \in DOMAIN session_stats_subquery
              THEN session_stats_subquery[id] ELSE NullSessionStats
    IN  [ sprint_id |-> id,
          status |-> sprints[id].status,
          habits_count |-> Coalesce0(hc),
          sessions_count |-> Coalesce0(ss.sessions_count),
          done_sessions |-> Coalesce0(ss.done_sessions),
          total_planned_minutes |-> Coalesce0(ss.total_planned_minutes),
          total_actual_minutes |-> Coalesce0(ss.total_actual_minutes) ]

\* One row of stmt: the sprint joined with its two groups, counts coalesced to 0.
OverviewRow(id) ==
    LET hc == IF id \in DOMAIN habit_counts_subquery
              THEN habit_counts_subquery[id] ELSE NULL
        ss == IF id \in DOMAIN session_stats_subquery
              THEN session_stats_subquery[id] ELSE NullSessionStats
    IN  [ sprint_id |-> id,
          status |-> sprints[id].status,
          habits_count |-> Coalesce0(hc),
          sessions_count |-> Coalesce0(ss.sessions_count),
          done_sessions |-> Coalesce0(ss.done_sessions),
          total_planned_minutes |-> Coalesce0(ss.total_planned_minutes),
          total_actual_minutes |-> ss.total_actual_minutes ]

\* Variant of OverviewItem: completion_rate 0 instead of None without sessions.
OverviewItem_ZeroRate(id) ==
    LET row == OverviewRow(id)
        sessions_count == OrZero(row.sessions_count)
        done_sessions == OrZero(row.done_sessions)
    IN  [ sprint_id |-> row.sprint_id,
          status |-> row.status,
          habits_count |-> OrZero(row.habits_count),
          sessions_count |-> sessions_count,
          done_sessions |-> done_sessions,
          completion_rate |-> IF sessions_count # 0
                              THEN Frac(done_sessions, sessions_count)
                              ELSE Frac(0, 1),
          total_planned_minutes |-> OrZero(row.total_planned_minutes),
          total_actual_minutes |-> row.total_actual_minutes ]

\* Variant of OverviewItem: completion_rate as a percentage, the way the
\* HTML pages show it.
OverviewItem_Percent(id) ==
    LET row == OverviewRow(id)
        sessions_count == OrZero(row.sessions_count)
        done_sessions == OrZero(row.done_sessions)
    IN  [ sprint_id |-> row.sprint_id,
          status |-> row.status,
          habits_count |-> OrZero(row.habits_count),
          sessions_count |-> sessions_count,
          done_sessions |-> done_sessions,
          completion_rate |-> IF sessions_count # 0
                              THEN Frac(100 * done_sessions, sessions_count)
                              ELSE NoValue,
          total_planned_minutes |-> OrZero(row.total_planned_minutes),
          total_actual_minutes |-> row.total_actual_minutes ]

\* The SprintOverview item built from one row.
OverviewItem(id) ==
    LET row == OverviewRow(id)
        sessions_count == OrZero(row.sessions_count)
        done_sessions == OrZero(row.done_sessions)
    IN  [ sprint_id |-> row.sprint_id,
          status |-> row.status,
          habits_count |-> OrZero(row.habits_count),
          sessions_count |-> sessions_count,
          done_sessions |-> done_sessions,
          completion_rate |-> IF sessions_count # 0
                              THEN Frac(done_sessions, sessions_count)
                              ELSE NoValue,
          total_planned_minutes |-> OrZero(row.total_planned_minutes),
          total_actual_minutes |-> row.total_actual_minutes ]

\* ORDER BY Sprint.id
RECURSIVE Ascending(_)
Ascending(S) ==
    IF S = {} THEN <<>>
    ELSE LET m == CHOOSE x \in S : \A y \in S : x <= y
         IN  <<m>> \o Ascending(S \ {m})

overview_items ==
    LET ids == Ascending(OverviewSprintIds)
    IN  [k \in 1..Len(ids) |-> OverviewItem(ids[k])]

-----------------------------------------------------------------------------
(* Requests and responses                                                  *)

\* No flash message: the handler did not call for a redirect.
NoFlash == [message |-> "", error |-> FALSE]

\* The response to request op: HTTP status, error code, whether it reports
\* an error, the path id and the body sprint id of the request (NULL when it
\* has none), and the payload returned.  details is the details object of
\* an error body as a set of <<key, value>> pairs, rolled_back tells that
\* the handler ran db.rollback(), and flash is the message a form handler
\* called its redirect with.
Response(op, status, code, error, id, body, result) ==
    [ op |-> op, status |-> status, code |-> code, error |-> error,
      id |-> id, body |-> body, result |-> result,
      details |-> {}, rolled_back |-> FALSE, flash |-> NoFlash ]

\* Variant of NotFoundDetails: the error carries no details.
NotFoundDetails_NoId(entity_id) == {}

\* _not_found_error(code, message, entity_id): details = {"id": entity_id}
NotFoundDetails(entity_id) == {<<"id", entity_id>>}

\* _get_sprint_or_404 / _get_session_or_404 raising
NotFound(op, code, id, body) ==
    [Response(op, 404, code, TRUE, id, body, NULL) EXCEPT !.details = NotFoundDetails(id)]

\* Path(gt=0) on the path ids of the API routes
ValidPathId(id) == id > 0

\* The request validation error FastAPI answers before the handler runs.
Unprocessable(op, id, body) ==
    Response(op, 422, "VALIDATION_ERROR", TRUE, id, body, NULL)

\* The 400 of create_habit / create_session when the body names another
\* sprint than the path: details carry both ids.
Mismatch(op, sprint_id, body_sprint_id) ==
    [Response(op, 400, "SPRINT_ID_MISMATCH", TRUE, sprint_id, body_sprint_id, NULL)
        EXCEPT !.details = {<<"path_sprint_id", sprint_id>>,
                            <<"body_sprint_id", body_sprint_id>>}]

\* HabitBase: sprint_id ge=1, target_sessions_per_day ge=1
ValidHabitCreate(body_sprint_id, target) == body_sprint_id >= 1 /\ target >= 1

\* SessionBase: sprint_id ge=1, habit_id ge=1, planned_duration_min ge=1,
\* actual_duration_min ge=1, difficulty and mood ge=1 le=5 (None allowed
\* where the field is optional)
OptionalGe(value, lo) == value = NULL \/ value >= lo

\* Variant of OptionalInRange: the bounds are not enforced.
OptionalInRange_Unchecked(value, lo, hi) == TRUE

OptionalInRange(value, lo, hi) == value = NULL \/ (value >= lo /\ value <= hi)

ValidSessionCreate(body_sprint_id, habit_id, planned, opt) ==
    /\ body_sprint_id >= 1
    /\ OptionalGe(habit_id, 1)
    /\ planned >= 1
    /\ OptionalGe(opt.actual_duration_min, 1)
    /\ OptionalInRange(opt.difficulty, 1, 5)
    /\ OptionalInRange(opt.mood, 1, 5)

\* SessionCompleteRequest: actual_duration_min ge=1 (required),
\* difficulty and mood ge=1 le=5
ValidSessionComplete(payload) ==
    /\ payload.actual_duration_min >= 1
    /\ OptionalInRange(payload.difficulty, 1, 5)
    /\ OptionalInRange(payload.mood, 1, 5)

\* SprintStatusUpdate: status is a member of the SprintStatus enum
ValidSprintStatusUpdate(st) == st \in SprintStatus

\* SessionSkipRequest: notes is a string or None
ValidSessionSkip(notes) == notes # NotAString

\* _default_redirect(request.url_for(...), message, error), and the
\* `request.url_for(...) + "?msg=..."` of create_sprint_ui: url_for returns a
\* URL object, on which `"?" not in url` and `url + suffix` raise TypeError.
\* The handler has done its work on the store by then; the request is
\* answered 500 and no redirect is sent.  flash is the message and the error
\* flag the handler called the redirect with.
Redirect(op, message, error, id) ==
    [Response(op, 500, "INTERNAL_SERVER_ERROR", TRUE, id, NULL, NULL)
        EXCEPT !.flash = [message |-> message, error |-> error]]

\* Whether db.commit() of a form handler goes through (TRUE) or raises.
CommitInputs == BOOLEAN

\* Variant of Rollback: what was flushed before the failure stays.
Rollback_KeepFlushed(before, flushed) == flushed

\* db.rollback() in the except branch of a form handler: the table as it was
\* before the request, whatever part of the transaction had been flushed.
Rollback(before, flushed) == before

\* The error redirect called for in an except branch, after db.rollback()
RolledBack(op, message, id) ==
    [Redirect(op, message, TRUE, id) EXCEPT !.rolled_back = TRUE]

\* The handler answered by r went through to its end: an API handler
\* returned without an error, a form handler called for its success redirect.
WentThrough(r) == IF r.flash = NoFlash THEN ~r.error ELSE ~r.flash.error

\* A request is accepted while the budget of requests lasts.
Serving == nreq < MaxRequests

\* A request served from start to end leaves the requests in flight alone.
Served == nreq' = nreq + 1 /\ UNCHANGED inflight

\* db.get(Sprint, id) / db.get(Habit, id) / db.get(Session, id) returns a row
SprintFound(id) == id \in DOMAIN sprints
HabitFound(id) == id \in DOMAIN habits
SessionFound(id) == id \in DOMAIN sessions

\* Variant of SprintIdMismatch: the body id is never compared with the path id.
SprintIdMismatch_Unchecked(sprint_id, body_sprint_id) == FALSE

\* payload.sprint_id != sprint_id
SprintIdMismatch(sprint_id, body_sprint_id) == body_sprint_id # sprint_id

\* str.strip() on the form texts drawn here (" " is the only one with blanks)
Strip(text) == IF text = " " THEN "" ELSE text

StoreUnchanged == UNCHANGED <<sprints, habits, sessions>>

Init ==
    /\ sprints = EmptyTable
    /\ habits = EmptyTable
    /\ sessions = EmptyTable
    /\ resp = Response("init", 0, "OK", FALSE, NULL, NULL, NULL)
    /\ nreq = 0
    /\ inflight = EmptyTable

-----------------------------------------------------------------------------
(* Sprints: app/routes/sprints.py, app/routes/ui.py                        *)

\* POST /sprints
create_sprint ==
    \E st \in SprintStatusInputs :
        /\ Serving
        /\ sprints' = Insert(sprints, [status |-> st])
        /\ resp' = Response("create_sprint", 201, "OK", FALSE, NULL, NULL, NextId(sprints))
        /\ UNCHANGED <<habits, sessions>>
        /\ Served

\* POST /ui/sprints
create_sprint_ui ==
    /\ Serving
    /\ sprints' = Insert(sprints, [status |-> "planned"])
    /\ resp' = Redirect("create_sprint_ui", "Sprint+created", FALSE, NULL)
    /\ UNCHANGED <<habits, sessions>>
    /\ Served

\* GET /sprints
list_sprints ==
    /\ Serving
    /\ resp' = Response("list_sprints", 200, "OK", FALSE, NULL, NULL, DOMAIN sprints)
    /\ StoreUnchanged
    /\ Served

\* GET /sprints/{sprint_id}
get_sprint ==
    \E sprint_id \in PathIdInputs(sprints) :
        /\ Serving
        /\ resp' = IF ~ValidPathId(sprint_id)
                   THEN Unprocessable("get_sprint", sprint_id, NULL)
                   ELSE IF ~SprintFound(sprint_id)
                   THEN NotFound("get_sprint", "SPRINT_NOT_FOUND", sprint_id, NULL)
                   ELSE Response("get_sprint", 200, "OK", FALSE, sprint_id, NULL,
                                 sprints[sprint_id])
        /\ StoreUnchanged
        /\ Served

\* Variant of StatusUpdated: a completed or cancelled sprint keeps its status.
StatusUpdated_TerminalKept(row, st) ==
    IF row.status \in {"completed", "cancelled"} THEN row ELSE [row EXCEPT !.status = st]

\* update_sprint_status:  sprint.status = payload.status
StatusUpdated(row, st) == [row EXCEPT !.status = st]

\* PATCH /sprints/{sprint_id}/status
update_sprint_status_request(sprint_id, st) ==
    /\ Serving
    /\ IF ~ValidPathId(sprint_id) \/ ~ValidSprintStatusUpdate(st)
       THEN /\ resp' = Unprocessable("update_sprint_status", sprint_id, NULL)
            /\ UNCHANGED sprints
       ELSE IF ~SprintFound(sprint_id)
       THEN /\ resp' = NotFound("update_sprint_status", "SPRINT_NOT_FOUND", sprint_id, NULL)
            /\ UNCHANGED sprints
       ELSE /\ sprints' = [sprints EXCEPT ![sprint_id] = StatusUpdated(@, st)]
            /\ resp' = Response("update_sprint_status", 200, "OK", FALSE, sprint_id,
                                NULL, sprints'[sprint_id])
    /\ UNCHANGED <<habits, sessions>>
    /\ Served

update_sprint_status ==
    \E sprint_id \in PathIdInputs(sprints), st \in StatusBodyInputs :
        update_sprint_status_request(sprint_id, st)

\* GET /sprints/overview
list_sprint_overview ==
    /\ Serving
    /\ resp' = Response("list_sprint_overview", 200, "OK", FALSE, NULL, NULL, overview_items)
    /\ StoreUnchanged
    /\ Served

\* GET /sprints/{sprint_id}/stats
sprint_stats ==
    \E sprint_id \in PathIdInputs(sprints) :
        /\ Serving
        /\ resp' = IF ~ValidPathId(sprint_id)
                   THEN Unprocessable("sprint_stats", sprint_id, NULL)
                   ELSE IF ~SprintFound(sprint_id)
                   THEN NotFound("sprint_stats", "SPRINT_NOT_FOUND", sprint_id, NULL)
                   ELSE Response("sprint_stats", 200, "OK", FALSE, sprint_id, NULL,
                                 sprint_stats_result(sprint_id))
        /\ StoreUnchanged
        /\ Served

-----------------------------------------------------------------------------
(* Habits                                                                  *)

\* POST /sprints/{sprint_id}/habits
create_habit_request(sprint_id, body_sprint_id, name, target) ==
    /\ Serving
    /\ IF ~ValidPathId(sprint_id) \/ ~ValidHabitCreate(body_sprint_id, target)
       THEN /\ resp' = Unprocessable("create_habit", sprint_id, body_sprint_id)
            /\ UNCHANGED habits
       ELSE IF ~SprintFound(sprint_id)
       THEN /\ resp' = NotFound("create_habit", "SPRINT_NOT_FOUND", sprint_id, body_sprint_id)
            /\ UNCHANGED habits
       ELSE IF SprintIdMismatch(sprint_id, body_sprint_id)
       THEN /\ resp' = Mismatch("create_habit", sprint_id, body_sprint_id)
            /\ UNCHANGED habits
       ELSE /\ habits' = Insert(habits, [sprint_id |-> body_sprint_id, name |-> name,
                                         target_sessions_per_day |-> target])
            /\ resp' = Response("create_habit", 201, "OK", FALSE, sprint_id,
                                body_sprint_id, NextId(habits))
    /\ UNCHANGED <<sprints, sessions>>
    /\ Served

create_habit ==
    \E sprint_id \in PathIdInputs(sprints), body_sprint_id \in IdInputs(sprints),
       name \in NameInputs, target \in HabitTargetInputs :
        create_habit_request(sprint_id, body_sprint_id, name, target)

\* GET /sprints/{sprint_id}/habits
list_habits ==
    \E sprint_id \in PathIdInputs(sprints) :
        /\ Serving
        /\ resp' = IF ~ValidPathId(sprint_id)
                   THEN Unprocessable("list_habits", sprint_id, NULL)
                   ELSE IF ~SprintFound(sprint_id)
                   THEN NotFound("list_habits", "SPRINT_NOT_FOUND", sprint_id, NULL)
                   ELSE Response("list_habits", 200, "OK", FALSE, sprint_id, NULL,
                                 {h \in DOMAIN habits : habits[h].sprint_id = sprint_id})
        /\ StoreUnchanged
        /\ Served

\* POST /ui/sprints/{sprint_id}/habits
create_habit_ui_request(sprint_id, name, target, committed) ==
    LET added == Insert(habits, [sprint_id |-> sprint_id, name |-> Strip(name),
                                 target_sessions_per_day |-> target])
    IN
    /\ Serving
    /\ IF ~SprintFound(sprint_id)
       THEN /\ resp' = Redirect("create_habit_ui", "Sprint+not+found", TRUE, sprint_id)
            /\ UNCHANGED habits
       ELSE IF Strip(name) = "" \/ target <= 0
       THEN /\ resp' = Redirect("create_habit_ui", "Unable+to+create+habit", TRUE, sprint_id)
            /\ UNCHANGED habits
       ELSE IF ~committed
       THEN /\ habits' = Rollback(habits, added)
            /\ resp' = RolledBack("create_habit_ui", "Unable+to+create+habit", sprint_id)
       ELSE /\ habits' = added
            /\ resp' = Redirect("create_habit_ui", "Habit+created", FALSE, sprint_id)
    /\ UNCHANGED <<sprints, sessions>>
    /\ Served

create_habit_ui ==
    \E sprint_id \in IdInputs(sprints), name \in FormNameInputs, target \in FormTargetInputs,
       committed \in CommitInputs :
        create_habit_ui_request(sprint_id, name, target, committed)

\* The sessions delete_habit_ui deletes with the habit:
\* select(Session).where(Session.habit_id == habit_id), db.delete(session) for each.
HabitSessionsDeleted(habit_id) ==
    {i \in DOMAIN sessions : sessions[i].habit_id = habit_id}

\* The sessions table after delete_habit_ui commits.  A session that still
\* referenced the habit at the flush would have its habit_id set to NULL by
\* the ORM (relationship Habit.sessions without delete cascade).
SessionsAfterHabitDelete(habit_id) ==
    LET kept == Remove(sessions, HabitSessionsDeleted(habit_id))
    IN  [i \in DOMAIN kept |->
            IF kept[i].habit_id = habit_id
            THEN [kept[i] EXCEPT !.habit_id = NULL] ELSE kept[i]]

\* POST /ui/habits/{habit_id}/delete
delete_habit_ui ==
    \E habit_id \in IdInputs(habits), committed \in CommitInputs :
        /\ Serving
        /\ IF ~HabitFound(habit_id)
           THEN /\ resp' = Redirect("delete_habit_ui", "Habit+not+found", TRUE, habit_id)
                /\ UNCHANGED <<habits, sessions>>
           ELSE IF ~committed
           THEN \E flushed \in SUBSET HabitSessionsDeleted(habit_id),
                   habit_flushed \in BOOLEAN :
                /\ sessions' = Rollback(sessions, Remove(sessions, flushed))
                /\ habits' = Rollback(habits, IF habit_flushed
                                              THEN Remove(habits, {habit_id}) ELSE habits)
                /\ resp' = RolledBack("delete_habit_ui", "Unable+to+delete+habit", habit_id)
           ELSE /\ sessions' = SessionsAfterHabitDelete(habit_id)
                /\ habits' = Remove(habits, {habit_id})
                /\ resp' = Redirect("delete_habit_ui", "Habit+deleted", FALSE, habit_id)
        /\ UNCHANGED sprints
        /\ Served

-----------------------------------------------------------------------------
(* Sessions                                                                *)

\* SessionModel(**payload.model_dump()) for a SessionCreate body
SessionRow(sprint_id, habit_id, planned_start, planned_duration_min, opt) ==
    [ sprint_id |-> sprint_id,
      habit_id |-> habit_id,
      planned_start |-> planned_start,
      planned_duration_min |-> planned_duration_min,
      actual_start |-> opt.actual_start,
      actual_duration_min |-> opt.actual_duration_min,
      status |-> opt.status,
      notes |-> opt.notes,
      difficulty |-> opt.difficulty,
      mood |-> opt.mood ]

\* POST /sprints/{sprint_id}/sessions
create_session_request(sprint_id, body_sprint_id, habit_id, planned_start, planned, opt) ==
    /\ Serving
    /\ IF \/ ~ValidPathId(sprint_id)
          \/ ~ValidSessionCreate(body_sprint_id, habit_id, planned, opt)
       THEN /\ resp' = Unprocessable("create_session", sprint_id, body_sprint_id)
            /\ UNCHANGED sessions
       ELSE IF ~SprintFound(sprint_id)
       THEN /\ resp' = NotFound("create_session", "SPRINT_NOT_FOUND", sprint_id, body_sprint_id)
            /\ UNCHANGED sessions
       ELSE IF SprintIdMismatch(sprint_id, body_sprint_id)
       THEN /\ resp' = Mismatch("create_session", sprint_id, body_sprint_id)
            /\ UNCHANGED sessions
       ELSE /\ sessions' = Insert(sessions,
                             SessionRow(body_sprint_id, habit_id, planned_start, planned, opt))
            /\ resp' = Response("create_session", 201, "OK", FALSE, sprint_id,
                                body_sprint_id, NextId(sessions))
    /\ UNCHANGED <<sprints, habits>>
    /\ Served

create_session ==
    \E sprint_id \in PathIdInputs(sprints), body_sprint_id \in IdInputs(sprints),
       habit_id \in {NULL} \cup IdInputs(habits),
       planned_start \in PlannedStartInputs, b \in SessionBodyInputs :
        create_session_request(sprint_id, body_sprint_id, habit_id, planned_start, b[1], b[2])

\* The habit_id field of the session form: absent or empty, text that is not
\* a number, or a number.
HabitFieldInputs ==
    { [kind |-> "empty", value |-> 0], [kind |-> "text", value |-> 0],
      [kind |-> "int", value |-> 0] }
        \cup { [kind |-> "int", value |-> h] : h \in IdInputs(habits) }

\* plan_session_ui lines 294-299: int(habit_id) of a non-empty field, None
\* for an empty field and on ValueError
ParseHabitId(field) == IF field.kind = "int" THEN field.value ELSE NULL

\* if habit_id_value:  (None and 0 are falsy)
Truthy(value) == value # NULL /\ value # 0

\* Variant of HabitRefused: any existing habit is taken, whatever its sprint.
HabitRefused_AnySprint(sprint_id, habit_id) == ~HabitFound(habit_id)

\* plan_session_ui:  not habit_obj or habit_obj.sprint_id != sprint_id
HabitRefused(sprint_id, habit_id) ==
    ~HabitFound(habit_id) \/ habits[habit_id].sprint_id # sprint_id

\* Variant of PlanRefused: only the duration is checked, not the sprint.
PlanRefused_DurationOnly(sprint_id, planned) == planned <= 0

\* plan_session_ui:  not sprint or planned_duration_min <= 0
PlanRefused(sprint_id, planned) == ~SprintFound(sprint_id) \/ planned <= 0

\* POST /ui/sprints/{sprint_id}/sessions/plan
plan_session_ui_request(sprint_id, habit_field, planned_start, planned, notes, committed) ==
    LET habit_id_value == ParseHabitId(habit_field)
        habit_id == IF Truthy(habit_id_value) THEN habit_id_value ELSE NULL
        added == Insert(sessions,
                        [ sprint_id |-> sprint_id,
                          habit_id |-> habit_id,
                          planned_start |-> planned_start,
                          planned_duration_min |-> planned,
                          actual_start |-> NULL,
                          actual_duration_min |-> NULL,
                          status |-> "planned",
                          notes |-> notes,
                          difficulty |-> NULL,
                          mood |-> NULL ])
    IN
    /\ Serving
    /\ IF PlanRefused(sprint_id, planned)
       THEN /\ resp' = Redirect("plan_session_ui", "Unable+to+plan+session", TRUE, sprint_id)
            /\ UNCHANGED sessions
       ELSE IF Truthy(habit_id_value) /\ HabitRefused(sprint_id, habit_id_value)
       THEN /\ resp' = Redirect("plan_session_ui", "Invalid+habit+selected", TRUE, sprint_id)
            /\ UNCHANGED sessions
       ELSE IF ~committed
       THEN /\ sessions' = Rollback(sessions, added)
            /\ resp' = RolledBack("plan_session_ui", "Unable+to+plan+session", sprint_id)
       ELSE /\ sessions' = added
            /\ resp' = Redirect("plan_session_ui", "Session+planned", FALSE, sprint_id)
    /\ UNCHANGED <<sprints, habits>>
    /\ Served

plan_session_ui ==
    \E sprint_id \in IdInputs(sprints), habit_field \in HabitFieldInputs,
       planned_start \in PlannedStartInputs, planned \in FormPlannedInputs,
       notes \in FormNotesInputs, committed \in CommitInputs :
        plan_session_ui_request(sprint_id, habit_field, planned_start, planned, notes,
                                committed)

\* Variant of Completed: completing toggles, so a session that is already
\* done goes back to planned.
Completed_Toggle(row, payload) ==
    [row EXCEPT !.status = IF @ = "done" THEN "planned" ELSE "done",
                !.actual_start = payload.actual_start,
                !.actual_duration_min = payload.actual_duration_min,
                !.notes = payload.notes,
                !.difficulty = payload.difficulty,
                !.mood = payload.mood]

\* Variant of Completed: a notes, difficulty or mood the payload omits keeps
\* the value the session held.
Completed_KeepOmitted(row, payload) ==
    [row EXCEPT !.status = "done",
                !.actual_start = payload.actual_start,
                !.actual_duration_min = payload.actual_duration_min,
                !.notes = IF payload.notes = NULL THEN @ ELSE payload.notes,
                !.difficulty = IF payload.difficulty = NULL THEN @ ELSE payload.difficulty,
                !.mood = IF payload.mood = NULL THEN @ ELSE payload.mood]

\* complete_session: the row after the assignments of lines 346-351
Completed(row, payload) ==
    [row EXCEPT !.status = "done",
                !.actual_start = payload.actual_start,
                !.actual_duration_min = payload.actual_duration_min,
                !.notes = payload.notes,
                !.difficulty = payload.difficulty,
                !.mood = payload.mood]

\* PATCH /sessions/{session_id}/complete
complete_session_request(session_id, payload) ==
    /\ Serving
    /\ IF ~ValidPathId(session_id) \/ ~ValidSessionComplete(payload)
       THEN /\ resp' = Unprocessable("complete_session", session_id, NULL)
            /\ UNCHANGED sessions
       ELSE IF ~SessionFound(session_id)
       THEN /\ resp' = NotFound("complete_session", "SESSION_NOT_FOUND", session_id, NULL)
            /\ UNCHANGED sessions
       ELSE /\ sessions' = [sessions EXCEPT ![session_id] = Completed(@, payload)]
            /\ resp' = Response("complete_session", 200, "OK", FALSE, session_id, NULL,
                                sessions'[session_id])
    /\ UNCHANGED <<sprints, habits>>
    /\ Served

complete_session ==
    \E session_id \in PathIdInputs(sessions), payload \in SessionCompleteInputs :
        complete_session_request(session_id, payload)

\* Variant of Skipped: the notes of the request are stored even when null.
Skipped_NotesAlways(row, notes) == [row EXCEPT !.status = "skipped", !.notes = notes]

\* skip_session: the row after the assignments of lines 378-380
\* (notes NULL: no body, or a body without notes)
Skipped(row, notes) ==
    IF notes # NULL
    THEN [row EXCEPT !.status = "skipped", !.notes = notes]
    ELSE [row EXCEPT !.status = "skipped"]

\* PATCH /sessions/{session_id}/skip
skip_session_request(session_id, notes) ==
    /\ Serving
    /\ IF ~ValidPathId(session_id) \/ ~ValidSessionSkip(notes)
       THEN /\ resp' = Unprocessable("skip_session", session_id, NULL)
            /\ UNCHANGED sessions
       ELSE IF ~SessionFound(session_id)
       THEN /\ resp' = NotFound("skip_session", "SESSION_NOT_FOUND", session_id, NULL)
            /\ UNCHANGED sessions
       ELSE /\ sessions' = [sessions EXCEPT ![session_id] = Skipped(@, notes)]
            /\ resp' = Response("skip_session", 200, "OK", FALSE, session_id, NULL,
                                sessions'[session_id])
    /\ UNCHANGED <<sprints, habits>>
    /\ Served

skip_session ==
    \E session_id \in PathIdInputs(sessions), notes \in SkipNotesInputs :
        skip_session_request(session_id, notes)

\* Variant of CompletedUi: only the status is set.
CompletedUi_StatusOnly(row, now) == [row EXCEPT !.status = "done"]

\* complete_session_ui: the row after the assignments of lines 358-362
CompletedUi(row, now) ==
    [row EXCEPT !.status = "done",
                !.actual_start = IF @ = NULL THEN now ELSE @,
                !.actual_duration_min = IF @ = NULL THEN row.planned_duration_min ELSE @]

\* POST /ui/sessions/{session_id}/complete
complete_session_ui ==
    \E session_id \in IdInputs(sessions), now \in NowInputs, committed \in CommitInputs :
        /\ Serving
        /\ IF ~SessionFound(session_id)
           THEN /\ resp' = Redirect("complete_session_ui", "Unable+to+update+session", TRUE,
                                    session_id)
                /\ UNCHANGED sessions
           ELSE IF ~committed
           THEN /\ sessions' = Rollback(sessions,
                                 [sessions EXCEPT ![session_id] = CompletedUi(@, now)])
                /\ resp' = RolledBack("complete_session_ui", "Unable+to+update+session",
                                      session_id)
           ELSE /\ sessions' = [sessions EXCEPT ![session_id] = CompletedUi(@, now)]
                /\ resp' = Redirect("complete_session_ui", "Session+updated", FALSE, session_id)
        /\ UNCHANGED <<sprints, habits>>
        /\ Served

\* skip_session_ui: the row after the assignment of line 394
\* Variant of SkippedUi: the skipped session is also detached from its habit.
SkippedUi_DetachHabit(row) == [row EXCEPT !.status = "skipped", !.habit_id = NULL]

SkippedUi(row) == [row EXCEPT !.status = "skipped"]

\* POST /ui/sessions/{session_id}/skip
skip_session_ui ==
    \E session_id \in IdInputs(sessions), committed \in CommitInputs :
        /\ Serving
        /\ IF ~SessionFound(session_id)
           THEN /\ resp' = Redirect("skip_session_ui", "Unable+to+update+session", TRUE,
                                    session_id)
                /\ UNCHANGED sessions
           ELSE IF ~committed
           THEN /\ sessions' = Rollback(sessions,
                                 [sessions EXCEPT ![session_id] = SkippedUi(@)])
                /\ resp' = RolledBack("skip_session_ui", "Unable+to+update+session",
                                      session_id)
           ELSE /\ sessions' = [sessions EXCEPT ![session_id] = SkippedUi(@)]
                /\ resp' = Redirect("skip_session_ui", "Session+updated", FALSE, session_id)
        /\ UNCHANGED <<sprints, habits>>
        /\ Served

-----------------------------------------------------------------------------
(* Demo seed: app/routes/demo.py                                           *)

\* The SessionCreate body of range(6) index offset; the clock counts hours
\* from base_start.  Notes: 5 "Felt productive", 6 "Needed rest".
SeedSession(sprint_id, habit_id, offset) ==
    [ sprint_id |-> sprint_id,
      habit_id |-> habit_id,
      planned_start |-> 24 * offset,
      planned_duration_min |-> IF offset % 2 = 0 THEN 60 ELSE 45,
      status |-> IF offset % 3 # 0 THEN "done" ELSE "skipped",
      actual_start |-> IF offset % 3 # 0 THEN 24 * offset + (offset % 3) ELSE NULL,
      actual_duration_min |-> IF offset % 3 # 0 THEN 55 ELSE NULL,
      notes |-> IF offset % 3 # 0 THEN 5 ELSE 6,
      difficulty |-> IF offset % 2 = 0 THEN 4 ELSE 3,
      mood |-> 3 + (offset % 2) ]

\* Variant of BulkDelete: the rows stay.
BulkDelete_Nothing(tbl) == tbl

\* db.query(Model).delete(): every row of the table goes
BulkDelete(tbl) == EmptyTable

\* db.add(row) for each row of a list, in order
RECURSIVE InsertAll(_, _)
InsertAll(tbl, rows) ==
    IF rows = <<>> THEN tbl
    ELSE InsertAll(Insert(tbl, Head(rows)), Tail(rows))

\* POST /demo/seed
seed_demo_writes ==
    LET no_sprints == BulkDelete(sprints)
        no_habits == BulkDelete(habits)
        no_sessions == BulkDelete(sessions)
        sprint_id == NextId(no_sprints)
        first_habit == NextId(no_habits)
        habits_payload ==
            << [sprint_id |-> sprint_id, name |-> "Morning math drills",
                target_sessions_per_day |-> 2],
               [sprint_id |-> sprint_id, name |-> "Evening recap notes",
                target_sessions_per_day |-> 1] >>
        sessions_payload ==
            [k \in 1..6 |-> SeedSession(sprint_id, first_habit, k - 1)]
    IN  /\ sprints' = Insert(no_sprints, [status |-> "active"])
        /\ habits' = InsertAll(no_habits, habits_payload)
        /\ sessions' = InsertAll(no_sessions, sessions_payload)

seed_demo ==
    /\ Serving
    /\ seed_demo_writes
    /\ resp' = Response("seed_demo", 200, "OK", FALSE, NULL, NULL, NextId(BulkDelete(sprints)))
    /\ Served

-----------------------------------------------------------------------------
(* Requests are served one at a time, at most MaxRequests of them.         *)

Next ==
    \/ create_sprint
    \/ create_sprint_ui
    \/ list_sprints
    \/ get_sprint
    \/ update_sprint_status
    \/ list_sprint_overview
    \/ sprint_stats
    \/ create_habit
    \/ list_habits
    \/ create_habit_ui
    \/ delete_habit_ui
    \/ create_session
    \/ plan_session_ui
    \/ complete_session
    \/ skip_session
    \/ complete_session_ui
    \/ skip_session_ui
    \/ seed_demo

Spec == Init /\ [][Next]_vars

\* The store after POST /sprints twice and POST /sprints/1/habits: two
\* sprints and one habit of sprint 1, and no request in flight.
TwoSprintsStore ==
    /\ sprints = InsertAll(EmptyTable, <<[status |-> "planned"], [status |-> "planned"]>>)
    /\ habits = Insert(EmptyTable, [sprint_id |-> 1, name |-> "read",
                                    target_sessions_per_day |-> 1])
    /\ sessions = EmptyTable
    /\ resp = Response("create_habit", 201, "OK", FALSE, 1, 1, 1)
    /\ inflight = EmptyTable

\* That store, with two further requests to serve.
TwoSprintsInit == TwoSprintsStore /\ nreq = MaxRequests - 2

\* The same requests, served from the store with two sprints.
SpecTwoSprints == TwoSprintsInit /\ [][Next]_vars

-----------------------------------------------------------------------------
(* Requests served by several worker threads: app/db.py, one database      *)
(* session per request.  The database session opens its transaction at    *)
(* the first INSERT, UPDATE or DELETE and ends it at db.commit(), so every *)
(* SELECT outside a transaction is a step of its own, between which other  *)
(* requests can commit: the lookup of the addressed row, a further query,  *)
(* the flush and commit, and each SELECT that reads a row back after the   *)
(* commit has expired it (db.refresh, or the first attribute read).  The   *)
(* writes of one request are flushed and committed in one transaction and  *)
(* become visible together.  A handler with a single statement is served   *)
(* in one step, by the action of the sections above.                       *)

\* The request that starts now takes the next request number.
Started(state) == (nreq + 1) :> state @@ inflight

\* Request q has moved on to state.
Moved(q, state) == [inflight EXCEPT ![q] = state]

\* Request q is answered.
Answered(q) == [k \in DOMAIN inflight \ {q} |-> inflight[k]]

\* A request is answered with r in its first step.
AnsweredAtOnce(r) == resp' = r /\ nreq' = nreq + 1 /\ UNCHANGED inflight

\* A request goes on after its first step, in state.
GoesOn(state) == inflight' = Started(state) /\ nreq' = nreq + 1 /\ UNCHANGED resp

\* Request q goes on to its next step, in state.
MovesOn(q, state) == inflight' = Moved(q, state) /\ UNCHANGED <<resp, nreq>>

\* Request q is answered with r.
Answer(q, r) == resp' = r /\ inflight' = Answered(q) /\ UNCHANGED nreq

\* Request q of handler op is at step at.
At(q, op, at) == inflight[q].op = op /\ inflight[q].at = at

\* db.refresh(row) found no row under the id it inserted: InvalidRequestError
\* leaves the handler and the request is answered 500.
RefreshFailed(op, id, body) ==
    Response(op, 500, "INTERNAL_SERVER_ERROR", TRUE, id, body, NULL)

\* The 201 of a create handler after db.refresh(row): the id and the row
\* that the table holds under that id now.
Refreshed(op, id, body, row_id, tbl) ==
    Response(op, 201, "OK", FALSE, id, body, [id |-> row_id, row |-> tbl[row_id]])

\* The 200 of an update handler after db.refresh(row): the row that the
\* table holds under the id now.
Reloaded(op, id, tbl) == Response(op, 200, "OK", FALSE, id, NULL, tbl[id])

\* The flush of an UPDATE matched no row (StaleDataError), in a handler
\* that does not catch it: the request is answered 500.
StaleData(op, id) == Response(op, 500, "INTERNAL_SERVER_ERROR", TRUE, id, NULL, NULL)

\* An attribute read after the commit found no row under the id of the
\* object (ObjectDeletedError): the request is answered 500 and the handler
\* does not get to its redirect.
ObjectDeleted(op, id) == Response(op, 500, "INTERNAL_SERVER_ERROR", TRUE, id, NULL, NULL)

\* The columns the flush writes for an object loaded as `loaded` and
\* assigned to `new`: those whose value differs from the loaded one.
Changes(loaded, new) == {c \in DOMAIN loaded : new[c] # loaded[c]}

\* UPDATE tbl SET the columns cols WHERE id = id, on the row as it is now
Updated(tbl, id, new, cols) ==
    [tbl EXCEPT ![id] = [c \in DOMAIN tbl[id] |->
                            IF c \in cols THEN new[c] ELSE tbl[id][c]]]

\* A handler that has loaded the row under id and assigned to its
\* attributes, before db.commit().
Pending(op, id, loaded, new) ==
    [ op |-> op, at |-> "commit", id |-> id, new |-> new,
      cols |-> Changes(loaded, new), failed |-> FALSE ]

\* The flush of the pending request f finds no row to update.  Nothing is
\* flushed when no column has changed.
Stale(tbl, f) == f.cols # {} /\ f.id \notin DOMAIN tbl

\* The table after the flush and commit of the pending request f.
Flushed(tbl, f) ==
    IF f.cols = {} \/ f.id \notin DOMAIN tbl THEN tbl
    ELSE Updated(tbl, f.id, f.new, f.cols)

\* Statuses of the SprintStatusUpdate bodies of the concurrent requests: the
\* status the sprints of ConcurrentInit have, another one, and one that the
\* enum does not have.
ConcurrentStatusInputs == {"planned", "active", "paused"}

\* SessionCompleteRequest bodies of the concurrent requests: one that passes
\* validation and one with an actual duration of 0.
ConcurrentCompleteInputs ==
    { [actual_start |-> 2, actual_duration_min |-> d,
       notes |-> NULL, difficulty |-> NULL, mood |-> NULL] : d \in {0, 40} }

\* notes of the session form of the concurrent requests: an empty field.
ConcurrentFormNotesInputs == {NULL}

-----------------------------------------------------------------------------
(* Sprints, concurrently                                                   *)

\* create_sprint, `db.add(sprint); db.commit()`.
create_sprint_commit ==
    \E st \in SprintStatusInputs :
        /\ Serving
        /\ sprints' = Insert(sprints, [status |-> st])
        /\ inflight' = Started([ op |-> "create_sprint", at |-> "refresh",
                                 id |-> NextId(sprints) ])
        /\ nreq' = nreq + 1
        /\ UNCHANGED <<habits, sessions, resp>>

\* create_sprint, `db.refresh(sprint); return sprint`.
create_sprint_refresh ==
    \E q \in DOMAIN inflight :
        /\ inflight[q].op = "create_sprint"
        /\ inflight[q].at = "refresh"
        /\ resp' = IF inflight[q].id \in DOMAIN sprints
                   THEN Refreshed("create_sprint", NULL, NULL, inflight[q].id, sprints)
                   ELSE RefreshFailed("create_sprint", NULL, NULL)
        /\ inflight' = Answered(q)
        /\ UNCHANGED <<sprints, habits, sessions, nreq>>

\* update_sprint_status up to `sprint.status = payload.status`: the sprint
\* is loaded and assigned to.
update_sprint_status_get_sprint ==
    \E sprint_id \in PathIdInputs(sprints), st \in ConcurrentStatusInputs :
        /\ Serving
        /\ IF ~ValidPathId(sprint_id) \/ ~ValidSprintStatusUpdate(st)
           THEN AnsweredAtOnce(Unprocessable("update_sprint_status", sprint_id, NULL))
           ELSE IF ~SprintFound(sprint_id)
           THEN AnsweredAtOnce(NotFound("update_sprint_status", "SPRINT_NOT_FOUND",
                                        sprint_id, NULL))
           ELSE GoesOn(Pending("update_sprint_status", sprint_id, sprints[sprint_id],
                               StatusUpdated(sprints[sprint_id], st)))
        /\ StoreUnchanged

\* update_sprint_status, `db.commit()`.
update_sprint_status_commit ==
    \E q \in DOMAIN inflight :
        /\ At(q, "update_sprint_status", "commit")
        /\ sprints' = Flushed(sprints, inflight[q])
        /\ IF Stale(sprints, inflight[q])
           THEN Answer(q, StaleData("update_sprint_status", inflight[q].id))
           ELSE MovesOn(q, [inflight[q] EXCEPT !.at = "refresh"])
        /\ UNCHANGED <<habits, sessions>>

\* update_sprint_status, `db.refresh(sprint); return sprint`.
update_sprint_status_refresh ==
    \E q \in DOMAIN inflight :
        /\ At(q, "update_sprint_status", "refresh")
        /\ Answer(q, IF inflight[q].id \in DOMAIN sprints
                     THEN Reloaded("update_sprint_status", inflight[q].id, sprints)
                     ELSE RefreshFailed("update_sprint_status", inflight[q].id, NULL))
        /\ StoreUnchanged

\* sprint_stats, `_get_sprint_or_404(sprint_id, db)`.
sprint_stats_get_sprint ==
    \E sprint_id \in PathIdInputs(sprints) :
        /\ Serving
        /\ IF ~ValidPathId(sprint_id)
           THEN AnsweredAtOnce(Unprocessable("sprint_stats", sprint_id, NULL))
           ELSE IF ~SprintFound(sprint_id)
           THEN AnsweredAtOnce(NotFound("sprint_stats", "SPRINT_NOT_FOUND", sprint_id, NULL))
           ELSE GoesOn([op |-> "sprint_stats", at |-> "select", id |-> sprint_id])
        /\ StoreUnchanged

\* sprint_stats, the aggregate query over the sessions as they are now.
sprint_stats_select ==
    \E q \in DOMAIN inflight :
        /\ At(q, "sprint_stats", "select")
        /\ Answer(q, Response("sprint_stats", 200, "OK", FALSE, inflight[q].id, NULL,
                              sprint_stats_result(inflight[q].id)))
        /\ StoreUnchanged

-----------------------------------------------------------------------------
(* Habits, concurrently                                                    *)

\* create_habit up to `_get_sprint_or_404(sprint_id, db)` and the comparison
\* of the two sprint ids.
create_habit_get_sprint ==
    \E sprint_id \in PathIdInputs(sprints), body_sprint_id \in IdInputs(sprints),
       name \in NameInputs, target \in HabitTargetInputs :
        /\ Serving
        /\ IF ~ValidPathId(sprint_id) \/ ~ValidHabitCreate(body_sprint_id, target)
           THEN /\ resp' = Unprocessable("create_habit", sprint_id, body_sprint_id)
                /\ UNCHANGED inflight
           ELSE IF ~SprintFound(sprint_id)
           THEN /\ resp' = NotFound("create_habit", "SPRINT_NOT_FOUND", sprint_id,
                                    body_sprint_id)
                /\ UNCHANGED inflight
           ELSE IF SprintIdMismatch(sprint_id, body_sprint_id)
           THEN /\ resp' = Mismatch("create_habit", sprint_id, body_sprint_id)
                /\ UNCHANGED inflight
           ELSE /\ inflight' = Started(
                       [ op |-> "create_habit", at |-> "commit", sprint_id |-> sprint_id,
                         row |-> [sprint_id |-> body_sprint_id, name |-> name,
                                  target_sessions_per_day |-> target] ])
                /\ UNCHANGED resp
        /\ nreq' = nreq + 1
        /\ StoreUnchanged

\* create_habit, `db.add(habit); db.commit()`.
create_habit_commit ==
    \E q \in DOMAIN inflight :
        /\ inflight[q].op = "create_habit"
        /\ inflight[q].at = "commit"
        /\ habits' = Insert(habits, inflight[q].row)
        /\ inflight' = Moved(q, [ op |-> "create_habit", at |-> "refresh",
                                  sprint_id |-> inflight[q].sprint_id,
                                  row |-> inflight[q].row, id |-> NextId(habits) ])
        /\ UNCHANGED <<sprints, sessions, resp, nreq>>

\* create_habit, `db.refresh(habit); return habit`.
create_habit_refresh ==
    \E q \in DOMAIN inflight :
        /\ inflight[q].op = "create_habit"
        /\ inflight[q].at = "refresh"
        /\ resp' = IF inflight[q].id \in DOMAIN habits
                   THEN Refreshed("create_habit", inflight[q].sprint_id,
                                  inflight[q].row.sprint_id, inflight[q].id, habits)
                   ELSE RefreshFailed("create_habit", inflight[q].sprint_id,
                                      inflight[q].row.sprint_id)
        /\ inflight' = Answered(q)
        /\ UNCHANGED <<sprints, habits, sessions, nreq>>

\* list_habits, `_get_sprint_or_404(sprint_id, db)`.
list_habits_get_sprint ==
    \E sprint_id \in PathIdInputs(sprints) :
        /\ Serving
        /\ IF ~ValidPathId(sprint_id)
           THEN AnsweredAtOnce(Unprocessable("list_habits", sprint_id, NULL))
           ELSE IF ~SprintFound(sprint_id)
           THEN AnsweredAtOnce(NotFound("list_habits", "SPRINT_NOT_FOUND", sprint_id, NULL))
           ELSE GoesOn([op |-> "list_habits", at |-> "select", id |-> sprint_id])
        /\ StoreUnchanged

\* list_habits, the SELECT of the habits of the sprint as they are now.
list_habits_select ==
    \E q \in DOMAIN inflight :
        /\ At(q, "list_habits", "select")
        /\ Answer(q, Response("list_habits", 200, "OK", FALSE, inflight[q].id, NULL,
                              {h \in DOMAIN habits : habits[h].sprint_id = inflight[q].id}))
        /\ StoreUnchanged

\* create_habit_ui up to the construction of the habit: the lookup of the
\* sprint and the two refusals.
create_habit_ui_get_sprint ==
    \E sprint_id \in IdInputs(sprints), name \in FormNameInputs, target \in FormTargetInputs :
        /\ Serving
        /\ IF ~SprintFound(sprint_id)
           THEN AnsweredAtOnce(Redirect("create_habit_ui", "Sprint+not+found", TRUE,
                                        sprint_id))
           ELSE IF Strip(name) = "" \/ target <= 0
           THEN AnsweredAtOnce(Redirect("create_habit_ui", "Unable+to+create+habit", TRUE,
                                        sprint_id))
           ELSE GoesOn([ op |-> "create_habit_ui", at |-> "commit", id |-> sprint_id,
                         row |-> [sprint_id |-> sprint_id, name |-> Strip(name),
                                  target_sessions_per_day |-> target] ])
        /\ StoreUnchanged

\* create_habit_ui, `db.add(habit); db.commit()` and the redirect.
create_habit_ui_commit ==
    \E q \in DOMAIN inflight, committed \in CommitInputs :
        /\ At(q, "create_habit_ui", "commit")
        /\ IF ~committed
           THEN /\ habits' = Rollback(habits, Insert(habits, inflight[q].row))
                /\ Answer(q, RolledBack("create_habit_ui", "Unable+to+create+habit",
                                        inflight[q].id))
           ELSE /\ habits' = Insert(habits, inflight[q].row)
                /\ Answer(q, Redirect("create_habit_ui", "Habit+created", FALSE,
                                      inflight[q].id))
        /\ UNCHANGED <<sprints, sessions>>

\* delete_habit_ui, `db.get(Habit, habit_id)` and `sprint_id = habit.sprint_id`.
delete_habit_ui_get_habit ==
    \E habit_id \in IdInputs(habits) :
        /\ Serving
        /\ IF ~HabitFound(habit_id)
           THEN AnsweredAtOnce(Redirect("delete_habit_ui", "Habit+not+found", TRUE, habit_id))
           ELSE GoesOn([ op |-> "delete_habit_ui", at |-> "select", id |-> habit_id,
                         selected |-> {}, loaded |-> {} ])
        /\ StoreUnchanged

\* delete_habit_ui, `select(Session).where(Session.habit_id == habit_id)`:
\* the sessions that db.delete(session) is called for.
delete_habit_ui_select ==
    \E q \in DOMAIN inflight :
        /\ At(q, "delete_habit_ui", "select")
        /\ MovesOn(q, [inflight[q] EXCEPT !.at = "load",
                                          !.selected = HabitSessionsDeleted(inflight[q].id)])
        /\ StoreUnchanged

\* delete_habit_ui, the flush of db.commit() before its first DELETE: the
\* unit of work loads the collection Habit.sessions of the habit it deletes
\* (a SELECT by habit_id), to set the habit_id of the sessions that are not
\* deleted themselves to NULL.
delete_habit_ui_load ==
    \E q \in DOMAIN inflight :
        /\ At(q, "delete_habit_ui", "load")
        /\ MovesOn(q, [inflight[q] EXCEPT !.at = "commit",
                                          !.loaded = HabitSessionsDeleted(inflight[q].id)])
        /\ StoreUnchanged

\* The sessions table after the flush of delete_habit_ui: the sessions it
\* selected are deleted by their ids (an id with no row is passed over with
\* a warning), the other sessions of the collection get habit_id NULL.
SessionsAfterFlush(selected, loaded) ==
    LET kept == Remove(sessions, selected)
    IN  [i \in DOMAIN kept |->
            IF i \in loaded THEN [kept[i] EXCEPT !.habit_id = NULL] ELSE kept[i]]

\* delete_habit_ui, the UPDATEs and DELETEs of the flush, the commit and the
\* redirect.  The UPDATE of a session that is gone raises StaleDataError,
\* which the handler catches like any failure of the commit.
delete_habit_ui_commit ==
    \E q \in DOMAIN inflight, committed \in CommitInputs :
        /\ At(q, "delete_habit_ui", "commit")
        /\ LET selected == inflight[q].selected
               loaded == inflight[q].loaded
               stale == \E i \in loaded \ selected : i \notin DOMAIN sessions
           IN  IF ~committed \/ stale
               THEN /\ sessions' = Rollback(sessions, Remove(sessions, selected))
                    /\ habits' = Rollback(habits, Remove(habits, {inflight[q].id}))
                    /\ Answer(q, RolledBack("delete_habit_ui", "Unable+to+delete+habit",
                                            inflight[q].id))
               ELSE /\ sessions' = SessionsAfterFlush(selected, loaded)
                    /\ habits' = Remove(habits, {inflight[q].id})
                    /\ Answer(q, Redirect("delete_habit_ui", "Habit+deleted", FALSE,
                                          inflight[q].id))
        /\ UNCHANGED sprints

-----------------------------------------------------------------------------
(* Sessions, concurrently                                                  *)

\* create_session up to `_get_sprint_or_404(sprint_id, db)` and the
\* comparison of the two sprint ids: the request is answered with an error,
\* or holds its new row until the commit.
create_session_get_sprint ==
    \E sprint_id \in PathIdInputs(sprints), body_sprint_id \in IdInputs(sprints),
       habit_id \in ConcurrentHabitInputs,
       planned_start \in PlannedStartInputs, b \in ConcurrentBodyInputs :
        /\ Serving
        /\ IF \/ ~ValidPathId(sprint_id)
              \/ ~ValidSessionCreate(body_sprint_id, habit_id, b[1], b[2])
           THEN /\ resp' = Unprocessable("create_session", sprint_id, body_sprint_id)
                /\ UNCHANGED inflight
           ELSE IF ~SprintFound(sprint_id)
           THEN /\ resp' = NotFound("create_session", "SPRINT_NOT_FOUND", sprint_id,
                                    body_sprint_id)
                /\ UNCHANGED inflight
           ELSE IF SprintIdMismatch(sprint_id, body_sprint_id)
           THEN /\ resp' = Mismatch("create_session", sprint_id, body_sprint_id)
                /\ UNCHANGED inflight
           ELSE /\ inflight' = Started(
                       [ op |-> "create_session", at |-> "commit", sprint_id |-> sprint_id,
                         row |-> SessionRow(body_sprint_id, habit_id, planned_start,
                                            b[1], b[2]) ])
                /\ UNCHANGED resp
        /\ nreq' = nreq + 1
        /\ StoreUnchanged

\* create_session, `db.add(session); db.commit()`: the row is inserted into
\* the store as it is now, and committed.
create_session_commit ==
    \E q \in DOMAIN inflight :
        /\ inflight[q].op = "create_session"
        /\ inflight[q].at = "commit"
        /\ sessions' = Insert(sessions, inflight[q].row)
        /\ inflight' = Moved(q, [ op |-> "create_session", at |-> "refresh",
                                  sprint_id |-> inflight[q].sprint_id,
                                  row |-> inflight[q].row, id |-> NextId(sessions) ])
        /\ UNCHANGED <<sprints, habits, resp, nreq>>

\* create_session, `db.refresh(session); return session`: the row is read
\* back by its id from the store as it is now.
create_session_refresh ==
    \E q \in DOMAIN inflight :
        /\ inflight[q].op = "create_session"
        /\ inflight[q].at = "refresh"
        /\ resp' = IF inflight[q].id \in DOMAIN sessions
                   THEN Refreshed("create_session", inflight[q].sprint_id,
                                  inflight[q].row.sprint_id, inflight[q].id, sessions)
                   ELSE RefreshFailed("create_session", inflight[q].sprint_id,
                                      inflight[q].row.sprint_id)
        /\ inflight' = Answered(q)
        /\ UNCHANGED <<sprints, habits, sessions, nreq>>

\* The session plan_session_ui builds (lines 317-324)
PlannedRow(sprint_id, habit_id, planned_start, planned, notes) ==
    [ sprint_id |-> sprint_id,
      habit_id |-> habit_id,
      planned_start |-> planned_start,
      planned_duration_min |-> planned,
      actual_start |-> NULL,
      actual_duration_min |-> NULL,
      status |-> "planned",
      notes |-> notes,
      difficulty |-> NULL,
      mood |-> NULL ]

\* plan_session_ui, `db.get(Sprint, sprint_id)` and the refusal of a missing
\* sprint or a duration that is not positive; a habit_id field with a number
\* other than 0 is looked up next.
plan_session_ui_get_sprint ==
    \E sprint_id \in IdInputs(sprints), habit_field \in HabitFieldInputs,
       planned_start \in PlannedStartInputs, planned \in FormPlannedInputs,
       notes \in ConcurrentFormNotesInputs :
        /\ Serving
        /\ IF PlanRefused(sprint_id, planned)
           THEN AnsweredAtOnce(Redirect("plan_session_ui", "Unable+to+plan+session", TRUE,
                                        sprint_id))
           ELSE GoesOn([ op |-> "plan_session_ui",
                         at |-> IF Truthy(ParseHabitId(habit_field))
                                THEN "get_habit" ELSE "commit",
                         id |-> sprint_id,
                         habit_id |-> IF Truthy(ParseHabitId(habit_field))
                                      THEN ParseHabitId(habit_field) ELSE NULL,
                         row |-> PlannedRow(sprint_id, NULL, planned_start, planned, notes) ])
        /\ StoreUnchanged

\* plan_session_ui, `db.get(Habit, habit_id_value)` and the refusal of a
\* habit that is missing or of another sprint.
plan_session_ui_get_habit ==
    \E q \in DOMAIN inflight :
        /\ At(q, "plan_session_ui", "get_habit")
        /\ IF HabitRefused(inflight[q].id, inflight[q].habit_id)
           THEN Answer(q, Redirect("plan_session_ui", "Invalid+habit+selected", TRUE,
                                   inflight[q].id))
           ELSE MovesOn(q, [inflight[q] EXCEPT !.at = "commit",
                                               !.row.habit_id = inflight[q].habit_id])
        /\ StoreUnchanged

\* plan_session_ui, `db.add(session); db.commit()` and the redirect.
plan_session_ui_commit ==
    \E q \in DOMAIN inflight, committed \in CommitInputs :
        /\ At(q, "plan_session_ui", "commit")
        /\ IF ~committed
           THEN /\ sessions' = Rollback(sessions, Insert(sessions, inflight[q].row))
                /\ Answer(q, RolledBack("plan_session_ui", "Unable+to+plan+session",
                                        inflight[q].id))
           ELSE /\ sessions' = Insert(sessions, inflight[q].row)
                /\ Answer(q, Redirect("plan_session_ui", "Session+planned", FALSE,
                                      inflight[q].id))
        /\ UNCHANGED <<sprints, habits>>

\* complete_session up to the assignments of lines 346-351.
complete_session_get_session ==
    \E session_id \in PathIdInputs(sessions), payload \in ConcurrentCompleteInputs :
        /\ Serving
        /\ IF ~ValidPathId(session_id) \/ ~ValidSessionComplete(payload)
           THEN AnsweredAtOnce(Unprocessable("complete_session", session_id, NULL))
           ELSE IF ~SessionFound(session_id)
           THEN AnsweredAtOnce(NotFound("complete_session", "SESSION_NOT_FOUND",
                                        session_id, NULL))
           ELSE GoesOn(Pending("complete_session", session_id, sessions[session_id],
                               Completed(sessions[session_id], payload)))
        /\ StoreUnchanged

\* complete_session, `db.commit()`.
complete_session_commit ==
    \E q \in DOMAIN inflight :
        /\ At(q, "complete_session", "commit")
        /\ sessions' = Flushed(sessions, inflight[q])
        /\ IF Stale(sessions, inflight[q])
           THEN Answer(q, StaleData("complete_session", inflight[q].id))
           ELSE MovesOn(q, [inflight[q] EXCEPT !.at = "refresh"])
        /\ UNCHANGED <<sprints, habits>>

\* complete_session, `db.refresh(session); return session`.
complete_session_refresh ==
    \E q \in DOMAIN inflight :
        /\ At(q, "complete_session", "refresh")
        /\ Answer(q, IF inflight[q].id \in DOMAIN sessions
                     THEN Reloaded("complete_session", inflight[q].id, sessions)
                     ELSE RefreshFailed("complete_session", inflight[q].id, NULL))
        /\ StoreUnchanged

\* skip_session up to the assignments of lines 378-380.
skip_session_get_session ==
    \E session_id \in PathIdInputs(sessions), notes \in SkipNotesInputs :
        /\ Serving
        /\ IF ~ValidPathId(session_id) \/ ~ValidSessionSkip(notes)
           THEN AnsweredAtOnce(Unprocessable("skip_session", session_id, NULL))
           ELSE IF ~SessionFound(session_id)
           THEN AnsweredAtOnce(NotFound("skip_session", "SESSION_NOT_FOUND", session_id, NULL))
           ELSE GoesOn(Pending("skip_session", session_id, sessions[session_id],
                               Skipped(sessions[session_id], notes)))
        /\ StoreUnchanged

\* skip_session, `db.commit()`.
skip_session_commit ==
    \E q \in DOMAIN inflight :
        /\ At(q, "skip_session", "commit")
        /\ sessions' = Flushed(sessions, inflight[q])
        /\ IF Stale(sessions, inflight[q])
           THEN Answer(q, StaleData("skip_session", inflight[q].id))
           ELSE MovesOn(q, [inflight[q] EXCEPT !.at = "refresh"])
        /\ UNCHANGED <<sprints, habits>>

\* skip_session, `db.refresh(session); return session`.
skip_session_refresh ==
    \E q \in DOMAIN inflight :
        /\ At(q, "skip_session", "refresh")
        /\ Answer(q, IF inflight[q].id \in DOMAIN sessions
                     THEN Reloaded("skip_session", inflight[q].id, sessions)
                     ELSE RefreshFailed("skip_session", inflight[q].id, NULL))
        /\ StoreUnchanged

\* The answer of complete_session_ui and skip_session_ui: the redirects read
\* session.sprint_id, which the commit (or the rollback) has expired, by a
\* SELECT of the row under the id of the session.  When the row is gone the
\* read raises in either branch, after db.rollback() in the except branch.
UpdateAnswered(f) ==
    IF f.id \notin DOMAIN sessions
    THEN [ObjectDeleted(f.op, f.id) EXCEPT !.rolled_back = f.failed]
    ELSE IF f.failed THEN RolledBack(f.op, "Unable+to+update+session", f.id)
    ELSE Redirect(f.op, "Session+updated", FALSE, f.id)

\* complete_session_ui up to the assignments of lines 358-363.
complete_session_ui_get_session ==
    \E session_id \in IdInputs(sessions), now \in NowInputs :
        /\ Serving
        /\ IF ~SessionFound(session_id)
           THEN AnsweredAtOnce(Redirect("complete_session_ui", "Unable+to+update+session",
                                        TRUE, session_id))
           ELSE GoesOn(Pending("complete_session_ui", session_id, sessions[session_id],
                               CompletedUi(sessions[session_id], now)))
        /\ StoreUnchanged

\* complete_session_ui, `db.commit()`, and db.rollback() when it raises.
complete_session_ui_commit ==
    \E q \in DOMAIN inflight, committed \in CommitInputs :
        /\ At(q, "complete_session_ui", "commit")
        /\ LET fails == ~committed \/ Stale(sessions, inflight[q])
           IN  /\ sessions' = IF fails
                              THEN Rollback(sessions, Flushed(sessions, inflight[q]))
                              ELSE Flushed(sessions, inflight[q])
               /\ MovesOn(q, [inflight[q] EXCEPT !.at = "return", !.failed = fails])
        /\ UNCHANGED <<sprints, habits>>

\* complete_session_ui, the redirect to the page of session.sprint_id.
complete_session_ui_return ==
    \E q \in DOMAIN inflight :
        /\ At(q, "complete_session_ui", "return")
        /\ Answer(q, UpdateAnswered(inflight[q]))
        /\ StoreUnchanged

\* skip_session_ui up to the assignment of line 394.
skip_session_ui_get_session ==
    \E session_id \in IdInputs(sessions) :
        /\ Serving
        /\ IF ~SessionFound(session_id)
           THEN AnsweredAtOnce(Redirect("skip_session_ui", "Unable+to+update+session",
                                        TRUE, session_id))
           ELSE GoesOn(Pending("skip_session_ui", session_id, sessions[session_id],
                               SkippedUi(sessions[session_id])))
        /\ StoreUnchanged

\* skip_session_ui, `db.commit()`, and db.rollback() when it raises.
skip_session_ui_commit ==
    \E q \in DOMAIN inflight, committed \in CommitInputs :
        /\ At(q, "skip_session_ui", "commit")
        /\ LET fails == ~committed \/ Stale(sessions, inflight[q])
           IN  /\ sessions' = IF fails
                              THEN Rollback(sessions, Flushed(sessions, inflight[q]))
                              ELSE Flushed(sessions, inflight[q])
               /\ MovesOn(q, [inflight[q] EXCEPT !.at = "return", !.failed = fails])
        /\ UNCHANGED <<sprints, habits>>

\* skip_session_ui, the redirect to the page of session.sprint_id.
skip_session_ui_return ==
    \E q \in DOMAIN inflight :
        /\ At(q, "skip_session_ui", "return")
        /\ Answer(q, UpdateAnswered(inflight[q]))
        /\ StoreUnchanged

-----------------------------------------------------------------------------
(* Demo seed, concurrently                                                 *)

\* The rows the return value of seed_demo reads, in the order it reads them:
\* sprint.id, habit.name of the two habits, session.id of the six sessions.
SeedReads ==
    << <<"sprints", NextId(BulkDelete(sprints))>> >>
        \o [k \in 1..2 |-> <<"habits", NextId(BulkDelete(habits)) + k - 1>>]
        \o [k \in 1..6 |-> <<"sessions", NextId(BulkDelete(sessions)) + k - 1>>]

\* seed_demo up to db.commit(): the three bulk deletes and the inserts are
\* one transaction.
seed_demo_commit ==
    /\ Serving
    /\ seed_demo_writes
    /\ GoesOn([ op |-> "seed_demo", at |-> "return", reads |-> SeedReads,
                id |-> NextId(BulkDelete(sprints)), habits |-> <<>>, sessions |-> <<>> ])

\* The table of the store that a read names
TableOf(name) ==
    IF name = "sprints" THEN sprints ELSE IF name = "habits" THEN habits ELSE sessions

\* seed_demo, one read of the return value (lines 92-103): the commit has
\* expired the objects, so the first attribute read of each is a SELECT of
\* the row under its id; a row that is gone raises ObjectDeletedError (500).
\* The last read answers the request with what the reads found.
seed_demo_return ==
    \E q \in DOMAIN inflight :
        /\ At(q, "seed_demo", "return")
        /\ LET f == inflight[q]
               name == Head(f.reads)[1]
               id == Head(f.reads)[2]
               read == [f EXCEPT
                           !.reads = Tail(@),
                           !.habits = IF name = "habits"
                                      THEN Append(@, habits[id].name) ELSE @,
                           !.sessions = IF name = "sessions"
                                        THEN Append(@, [id |-> id,
                                                        status |-> sessions[id].status,
                                                        planned_duration |->
                                                            sessions[id].planned_duration_min])
                                        ELSE @]
           IN  IF id \notin DOMAIN TableOf(name)
               THEN Answer(q, ObjectDeleted("seed_demo", NULL))
               ELSE IF read.reads = <<>>
               THEN Answer(q, Response("seed_demo", 200, "OK", FALSE, NULL, NULL,
                                       [ sprint_id |-> f.id, habits |-> read.habits,
                                         sessions |-> read.sessions ]))
               ELSE MovesOn(q, read)
        /\ StoreUnchanged

-----------------------------------------------------------------------------
(* The handlers of the sections above, served concurrently.                *)

NextConcurrent ==
    \/ list_sprints
    \/ create_sprint_commit
    \/ create_sprint_refresh
    \/ create_sprint_ui
    \/ list_sprint_overview
    \/ get_sprint
    \/ update_sprint_status_get_sprint
    \/ update_sprint_status_commit
    \/ update_sprint_status_refresh
    \/ sprint_stats_get_sprint
    \/ sprint_stats_select
    \/ create_habit_get_sprint
    \/ create_habit_commit
    \/ create_habit_refresh
    \/ list_habits_get_sprint
    \/ list_habits_select
    \/ create_habit_ui_get_sprint
    \/ create_habit_ui_commit
    \/ delete_habit_ui_get_habit
    \/ delete_habit_ui_select
    \/ delete_habit_ui_load
    \/ delete_habit_ui_commit
    \/ create_session_get_sprint
    \/ create_session_commit
    \/ create_session_refresh
    \/ plan_session_ui_get_sprint
    \/ plan_session_ui_get_habit
    \/ plan_session_ui_commit
    \/ complete_session_get_session
    \/ complete_session_commit
    \/ complete_session_refresh
    \/ skip_session_get_session
    \/ skip_session_commit
    \/ skip_session_refresh
    \/ complete_session_ui_get_session
    \/ complete_session_ui_commit
    \/ complete_session_ui_return
    \/ skip_session_ui_get_session
    \/ skip_session_ui_commit
    \/ skip_session_ui_return
    \/ seed_demo_commit
    \/ seed_demo_return

\* Concurrent requests on the store with two sprints.
ConcurrentInit == TwoSprintsStore /\ nreq = 0

SpecConcurrent == ConcurrentInit /\ [][NextConcurrent]_vars

-----------------------------------------------------------------------------
(* Properties.  The counts and sums below are taken directly from the      *)
(* sessions table, independently of the SQL operators above.               *)

RECURSIVE SumOf(_, _)
SumOf(ids, col) ==
    IF ids = {} THEN 0
    ELSE LET i == CHOOSE j \in ids : TRUE
         IN  sessions[i][col] + SumOf(ids \ {i}, col)

SprintSessions(id) == {i \in DOMAIN sessions : sessions[i].sprint_id = id}
DoneSessions(id) == {i \in SprintSessions(id) : sessions[i].status = "done"}
Having(ids, col) == {i \in ids : sessions[i][col] # NULL}

\* The entries for sprint id in the overview items
EntriesOf(items, id) == {k \in DOMAIN items : items[k].sprint_id = id}

\* rate is the quotient p / q (q > 0), compared by cross-multiplication
IsQuotient(rate, p, q) ==
    /\ Len(rate) = 2
    /\ rate[2] > 0
    /\ rate[1] * q = p * rate[2]

\* C1: every sprint with zero sessions has an overview entry, and its entry
\* has completion_rate null, sessions_count 0 and done_sessions 0.
C1_EmptySprintOverview ==
    LET items == overview_items
    IN
        \A id \in DOMAIN sprints :
            SprintSessions(id) = {} =>
                /\ EntriesOf(items, id) # {}
                /\ \A k \in EntriesOf(items, id) :
                    /\ items[k].completion_rate = NoValue
                    /\ items[k].sessions_count = 0
                    /\ items[k].done_sessions = 0

\* The overview was just returned for a store holding a sprint without
\* sessions next to a sprint with sessions.
C1_Witness ==
    /\ resp.op = "list_sprint_overview"
    /\ resp.result = overview_items
    /\ \E a, b \in DOMAIN sprints : SprintSessions(a) = {} /\ SprintSessions(b) # {}

\* C2: for every existing sprint with N sessions of which D are done,
\* sprint_stats reports total_sessions = N, done_sessions = D and
\* completion_rate = D/N when N > 0, and completion_rate 0 when N = 0.
C2_StatsCompletionRate ==
    \A id \in DOMAIN sprints :
        LET st == sprint_stats_result(id)
            N == Cardinality(SprintSessions(id))
            D == Cardinality(DoneSessions(id))
        IN  /\ st.total_sessions = N
            /\ st.done_sessions = D
            /\ N > 0 => IsQuotient(st.completion_rate, D, N)
            /\ N = 0 => st.completion_rate = <<0, 1>>

\* sprint_stats just answered for a sprint with some, but not all, sessions
\* done, one of them without a habit.
C2_Witness ==
    /\ resp.op = "sprint_stats"
    /\ resp.status = 200
    /\ resp.result = sprint_stats_result(resp.id)
    /\ DoneSessions(resp.id) # {}
    /\ DoneSessions(resp.id) # SprintSessions(resp.id)
    /\ \E i \in SprintSessions(resp.id) : sessions[i].habit_id = NULL

\* The average of col over exactly the done sessions of sprint id that have it
IsDoneAverage(avg, id, col) ==
    LET over == Having(DoneSessions(id), col)
    IN  IF over = {} THEN avg = NoValue
        ELSE IsQuotient(avg, SumOf(over, col), Cardinality(over))

\* C3: avg_difficulty and avg_mood of sprint_stats are the averages over
\* exactly the done sessions with a value; sessions that are skipped or
\* planned do not count, and the result is null when no done session has one.
C3_AveragesOverDone ==
    \A id \in DOMAIN sprints :
        /\ IsDoneAverage(sprint_stats_result(id).avg_difficulty, id, "difficulty")
        /\ IsDoneAverage(sprint_stats_result(id).avg_mood, id, "mood")

\* sprint_stats just answered for a sprint where a session that is not done
\* carries a difficulty that would move the average.
C3_Witness ==
    /\ resp.op = "sprint_stats"
    /\ resp.status = 200
    /\ resp.result = sprint_stats_result(resp.id)
    /\ LET all == Having(SprintSessions(resp.id), "difficulty")
           done == Having(DoneSessions(resp.id), "difficulty")
       IN  /\ done # {}
           /\ all # done
           /\ SumOf(all, "difficulty") * Cardinality(done)
                # SumOf(done, "difficulty") * Cardinality(all)

\* C4: the overview's total_actual_minutes of a sprint is null when none of
\* its sessions has actual_duration_min, else the sum over those that have.
C4_OverviewActualMinutes ==
    LET items == overview_items
    IN
        \A id \in DOMAIN sprints :
            LET over == Having(SprintSessions(id), "actual_duration_min")
            IN  /\ EntriesOf(items, id) # {}
                /\ \A k \in EntriesOf(items, id) :
                    items[k].total_actual_minutes =
                        IF over = {} THEN NULL ELSE SumOf(over, "actual_duration_min")

\* The overview was just returned with one sprint that has no actual
\* duration at all and one sprint where only some sessions have one.
C4_Witness ==
    /\ resp.op = "list_sprint_overview"
    /\ resp.result = overview_items
    /\ \E a \in DOMAIN sprints :
        Having(SprintSessions(a), "actual_duration_min") = {}
    /\ \E b \in DOMAIN sprints :
        /\ Having(SprintSessions(b), "actual_duration_min") # {}
        /\ Having(SprintSessions(b), "actual_duration_min") # SprintSessions(b)

\* The requests that create a habit or a session through the API
CreateOps == {"create_session", "create_habit"}

\* C5 as stated: creating a session or a habit whose body sprint id differs
\* from the path sprint id always yields SPRINT_ID_MISMATCH (400), for every
\* path id, and the store holds no new row.
C5_MismatchAlwaysConflict ==
    [][ (resp'.op \in CreateOps /\ resp'.body # resp'.id) =>
            /\ resp'.status = 400
            /\ resp'.code = "SPRINT_ID_MISMATCH"
            /\ StoreUnchanged ]_vars

\* C5 as the code has it: with differing body and path sprint ids a request
\* that passes validation is answered SPRINT_ID_MISMATCH (400) when the path
\* sprint exists and SPRINT_NOT_FOUND (404) when it does not; no row is
\* written either way (nor by a request that fails validation).
C5_MismatchConflictOrNotFound ==
    [][ (resp'.op \in CreateOps /\ resp'.body # resp'.id) =>
            /\ resp'.status # 422 /\ resp'.id \in DOMAIN sprints =>
                  resp'.status = 400 /\ resp'.code = "SPRINT_ID_MISMATCH"
            /\ resp'.status # 422 /\ resp'.id \notin DOMAIN sprints =>
                  resp'.status = 404 /\ resp'.code = "SPRINT_NOT_FOUND"
            /\ resp'.error
            /\ StoreUnchanged ]_vars

\* create_session was just refused for a body sprint id that exists but is
\* not the (existing) path sprint, with sessions already in the store.
C5_Witness ==
    /\ resp.op = "create_session"
    /\ resp.id \in DOMAIN sprints
    /\ resp.body \in DOMAIN sprints
    /\ resp.body # resp.id
    /\ resp.code = "SPRINT_ID_MISMATCH"
    /\ sessions # EmptyTable

\* C6: each session whose habit_id is set references an existing habit of
\* the session's own sprint.
C6_HabitOfSameSprint ==
    \A i \in DOMAIN sessions :
        sessions[i].habit_id # NULL =>
            /\ sessions[i].habit_id \in DOMAIN habits
            /\ habits[sessions[i].habit_id].sprint_id = sessions[i].sprint_id

\* C7: every session's sprint_id and every habit's sprint_id reference a
\* sprint that exists in the store.
C7_SprintReferencesExist ==
    /\ \A i \in DOMAIN sessions : sessions[i].sprint_id \in DOMAIN sprints
    /\ \A h \in DOMAIN habits : habits[h].sprint_id \in DOMAIN sprints

\* The demo seed just replaced a store that held two sprints; its one sprint
\* now carries the seeded habits and sessions.
C7_Witness ==
    /\ resp.op = "seed_demo"
    /\ nreq >= 3
    /\ DOMAIN sprints = {1}
    /\ DOMAIN habits # {}
    /\ DOMAIN sessions # {}

\* C8: a successful delete_habit_ui removes the habit and deletes no session:
\* every session that referenced the habit is still there with habit_id
\* null, and every sprint keeps its number of sessions.
C8_HabitDeleteKeepsSessions ==
    [][ (resp'.op = "delete_habit_ui" /\ WentThrough(resp')) =>
            /\ resp'.id \notin DOMAIN habits'
            /\ DOMAIN sessions' = DOMAIN sessions
            /\ \A i \in DOMAIN sessions :
                sessions[i].habit_id = resp'.id => sessions'[i].habit_id = NULL ]_vars

\* The requests that complete or skip a session
TransitionOps ==
    {"complete_session", "skip_session", "complete_session_ui", "skip_session_ui"}

\* C9: completing or skipping never puts a session that is done or skipped
\* back to planned.
C9_NeverBackToPlanned ==
    [][ resp'.op \in TransitionOps =>
            \A i \in DOMAIN sessions :
                sessions[i].status \in {"done", "skipped"} =>
                    /\ i \in DOMAIN sessions'
                    /\ sessions'[i].status # "planned" ]_vars

\* complete_session just acted on a session that was done before: a seeded
\* done session (notes 5, "Felt productive") now holds the notes of the
\* request body.
C9_Witness ==
    /\ resp.op = "complete_session"
    /\ resp.status = 200
    /\ nreq = 2
    /\ resp.id \in {2, 3, 5, 6}
    /\ sessions[resp.id].notes # 5
    /\ \A i \in DOMAIN sessions : sessions[i].status # "planned"

\* C10: under complete and skip requests a done session never becomes
\* skipped and a skipped session never becomes done.
C10_DoneAndSkippedTerminal ==
    [][ resp'.op \in TransitionOps =>
            \A i \in DOMAIN sessions \cap DOMAIN sessions' :
                /\ sessions[i].status = "done" => sessions'[i].status # "skipped"
                /\ sessions[i].status = "skipped" => sessions'[i].status # "done" ]_vars

\* The API requests addressed to a sprint id, and to a session id
ApiSprintOps ==
    {"get_sprint", "update_sprint_status", "create_habit", "list_habits",
     "create_session", "sprint_stats"}

ApiSessionOps == {"complete_session", "skip_session"}

\* The API requests that carry a body, validated before the handler runs
ApiBodyOps ==
    {"update_sprint_status", "create_habit", "create_session", "complete_session",
     "skip_session"}

\* The request just served was an API request addressed to an id with no row.
AddressedToMissing ==
    \/ resp'.op \in ApiSprintOps /\ resp'.id \notin DOMAIN sprints
    \/ resp'.op \in ApiSessionOps /\ resp'.id \notin DOMAIN sessions

\* The not-found answer for the id of the request just served
IsNotFoundAnswer ==
    /\ resp'.status = 404
    /\ resp'.error
    /\ resp'.code = IF resp'.op \in ApiSprintOps THEN "SPRINT_NOT_FOUND"
                                                ELSE "SESSION_NOT_FOUND"
    /\ resp'.details = {<<"id", resp'.id>>}

\* C11 as stated: every API request addressed to a sprint id or session id
\* that does not exist is answered 404 with the requested id in the details,
\* and leaves the store unchanged.
C11_MissingIdAlways404 ==
    [][ AddressedToMissing => IsNotFoundAnswer /\ StoreUnchanged ]_vars

\* The request just served carried a body that passes validation: it is one
\* of the requests below, each with a body that its schema accepts.
ValidBodyServed ==
    \/ /\ resp'.op = "update_sprint_status"
       /\ \E st \in StatusBodyInputs :
              ValidSprintStatusUpdate(st) /\ update_sprint_status_request(resp'.id, st)
    \/ /\ resp'.op = "create_habit"
       /\ \E name \in NameInputs, target \in HabitTargetInputs :
              /\ ValidHabitCreate(resp'.body, target)
              /\ create_habit_request(resp'.id, resp'.body, name, target)
    \/ /\ resp'.op = "create_session"
       /\ \E habit_id \in {NULL} \cup IdInputs(habits),
             planned_start \in PlannedStartInputs, b \in SessionBodyInputs :
              /\ ValidSessionCreate(resp'.body, habit_id, b[1], b[2])
              /\ create_session_request(resp'.id, resp'.body, habit_id, planned_start,
                                        b[1], b[2])
    \/ /\ resp'.op = "complete_session"
       /\ \E payload \in SessionCompleteInputs :
              ValidSessionComplete(payload) /\ complete_session_request(resp'.id, payload)
    \/ /\ resp'.op = "skip_session"
       /\ \E notes \in SkipNotesInputs :
              ValidSessionSkip(notes) /\ skip_session_request(resp'.id, notes)

\* C11 as the code has it: an API request addressed to a positive sprint id
\* or session id that does not exist leaves the store unchanged and is
\* answered 404 with the requested id in the details, unless it carries a
\* body (update_sprint_status, create_habit, create_session,
\* complete_session, skip_session) and the body fails validation (422); a
\* path id that is not positive is answered 422.
C11_MissingIdNotFoundOrInvalid ==
    [][ AddressedToMissing =>
            /\ StoreUnchanged
            /\ resp'.error
            /\ IF resp'.id > 0
               THEN IsNotFoundAnswer \/ (resp'.status = 422 /\ resp'.op \in ApiBodyOps)
               ELSE resp'.status = 422
            /\ resp'.op \notin ApiBodyOps /\ resp'.id > 0 => IsNotFoundAnswer
            /\ ValidBodyServed /\ resp'.id > 0 => IsNotFoundAnswer ]_vars

\* skip_session, with a body that passes validation, was just answered
\* SESSION_NOT_FOUND for a positive id while the store holds other sessions.
C11_Witness ==
    /\ resp.op = "skip_session"
    /\ resp.status = 404
    /\ resp.id > 0
    /\ resp.details = {<<"id", resp.id>>}
    /\ sessions # EmptyTable
    /\ resp.id \notin DOMAIN sessions

\* The ranges of the numeric fields: a planned duration of at least 1, an
\* actual duration, a difficulty and a mood that are absent or within
\* range, a daily target of at least 1.
PlannedOk(planned) == planned >= 1

ActualOk(actual) == actual = NULL \/ actual >= 1

RatingOk(rating) == rating = NULL \/ rating \in 1..5

TargetOk(target) == target >= 1

FieldRangesHold ==
    /\ \A i \in DOMAIN sessions :
        /\ PlannedOk(sessions[i].planned_duration_min)
        /\ ActualOk(sessions[i].actual_duration_min)
        /\ RatingOk(sessions[i].difficulty)
        /\ RatingOk(sessions[i].mood)
    /\ \A h \in DOMAIN habits : TargetOk(habits[h].target_sessions_per_day)

\* Whatever else a request holds, one that carries an out-of-range value is
\* answered with an error and leaves the three tables as they were.
Rejected == resp'.error /\ StoreUnchanged

\* The request bodies among the inputs that carry an out-of-range value
OutOfRangeSessionBodies ==
    { b \in SessionBodyInputs :
        ~( /\ PlannedOk(b[1]) /\ ActualOk(b[2].actual_duration_min)
           /\ RatingOk(b[2].difficulty) /\ RatingOk(b[2].mood) ) }

OutOfRangeCompleteBodies ==
    { payload \in SessionCompleteInputs :
        ~( /\ payload.actual_duration_min # NULL /\ ActualOk(payload.actual_duration_min)
           /\ RatingOk(payload.difficulty) /\ RatingOk(payload.mood) ) }

\* Every request with such a body that the step just taken can have served
\* (a response names the path id and the body sprint id of its request) was
\* rejected.
OutOfRangeRejected ==
    /\ resp'.op = "create_session" =>
        \A b \in OutOfRangeSessionBodies, habit_id \in {NULL} \cup IdInputs(habits),
           planned_start \in PlannedStartInputs :
            create_session_request(resp'.id, resp'.body, habit_id, planned_start,
                                   b[1], b[2]) => Rejected
    /\ resp'.op = "complete_session" =>
        \A payload \in OutOfRangeCompleteBodies :
            complete_session_request(resp'.id, payload) => Rejected
    /\ resp'.op = "create_habit" =>
        \A name \in NameInputs, target \in {t \in HabitTargetInputs : ~TargetOk(t)} :
            create_habit_request(resp'.id, resp'.body, name, target) => Rejected
    /\ resp'.op = "create_habit_ui" =>
        \A name \in FormNameInputs, target \in {t \in FormTargetInputs : ~TargetOk(t)},
           committed \in CommitInputs :
            create_habit_ui_request(resp'.id, name, target, committed) => Rejected
    /\ resp'.op = "plan_session_ui" =>
        \A habit_field \in HabitFieldInputs, planned_start \in PlannedStartInputs,
           planned \in {d \in FormPlannedInputs : ~PlannedOk(d)},
           notes \in FormNotesInputs, committed \in CommitInputs :
            plan_session_ui_request(resp'.id, habit_field, planned_start, planned,
                                    notes, committed) => Rejected

\* C12: in every reachable state the numeric fields of every session and of
\* every habit are within their ranges, and a request (API or form) that
\* carries an out-of-range value is rejected and changes nothing in the store.
C12_FieldRanges == []FieldRangesHold /\ [][OutOfRangeRejected]_vars

\* create_session was just refused for its body alone (the path sprint
\* exists and the body names it) while the store holds sessions.
C12_Witness ==
    /\ resp.op = "create_session"
    /\ resp.status = 422
    /\ resp.id \in DOMAIN sprints
    /\ resp.body = resp.id
    /\ sessions # EmptyTable

\* The requests that complete a session
CompleteOps == {"complete_session", "complete_session_ui"}

\* C13: after a successful completion of an existing session, through the
\* API or the form, the session is done and has an actual_start and an
\* actual_duration_min; through the form, an actual_duration_min that was
\* null has become the planned duration and one that was set is unchanged.
C13_CompletionFillsActuals ==
    [][ (resp'.op \in CompleteOps /\ WentThrough(resp')) =>
            /\ resp'.id \in DOMAIN sessions
            /\ resp'.id \in DOMAIN sessions'
            /\ sessions'[resp'.id].status = "done"
            /\ sessions'[resp'.id].actual_start # NULL
            /\ sessions'[resp'.id].actual_duration_min # NULL
            /\ resp'.op = "complete_session_ui" =>
                sessions'[resp'.id].actual_duration_min =
                    IF sessions[resp'.id].actual_duration_min = NULL
                    THEN sessions[resp'.id].planned_duration_min
                    ELSE sessions[resp'.id].actual_duration_min ]_vars

\* The form just completed a session that had neither actual value: it now
\* starts at the handler's clock reading and lasts its planned duration.
C13_Witness ==
    /\ resp.op = "complete_session_ui"
    /\ WentThrough(resp)
    /\ sessions[resp.id].status = "done"
    /\ sessions[resp.id].actual_start \in NowInputs
    /\ sessions[resp.id].actual_duration_min = sessions[resp.id].planned_duration_min

\* C14: for an existing sprint a status update succeeds from every status
\* to every status, the same one and out of completed or cancelled included:
\* the sprint then has the requested status, the other sprints are as they
\* were, and so are all habits and sessions.
C14_AnyStatusTransition ==
    [][ resp'.op = "update_sprint_status" =>
            \A st \in SprintStatus :
                ( /\ resp'.id \in DOMAIN sprints
                  /\ update_sprint_status_request(resp'.id, st) ) =>
                    /\ resp'.status = 200
                    /\ ~resp'.error
                    /\ DOMAIN sprints' = DOMAIN sprints
                    /\ sprints'[resp'.id].status = st
                    /\ \A other \in DOMAIN sprints \ {resp'.id} :
                        sprints'[other] = sprints[other]
                    /\ UNCHANGED <<habits, sessions>> ]_vars

\* The seeded sprint (active, with its habits and sessions) was just
\* cancelled by a status update.
C14_Witness ==
    /\ resp.op = "update_sprint_status"
    /\ resp.status = 200
    /\ nreq = 2
    /\ sprints[resp.id].status = "cancelled"
    /\ habits # EmptyTable
    /\ sessions # EmptyTable

\* The habits of sprint id
SprintHabits(id) == {h \in DOMAIN habits : habits[h].sprint_id = id}

\* C15: the overview holds exactly one entry per existing sprint and nothing
\* else, in strictly ascending order of sprint id; a sprint with no habits
\* and no sessions appears with habits_count 0, sessions_count 0 and
\* total_planned_minutes 0.
C15_OverviewOnePerSprint ==
    LET items == overview_items
    IN
        /\ Len(items) = Cardinality(DOMAIN sprints)
        /\ \A id \in DOMAIN sprints : Cardinality(EntriesOf(items, id)) = 1
        /\ \A k \in 1..(Len(items) - 1) :
            items[k].sprint_id < items[k + 1].sprint_id
        /\ \A id \in DOMAIN sprints :
            (SprintHabits(id) = {} /\ SprintSessions(id) = {}) =>
                \A k \in EntriesOf(items, id) :
                    /\ items[k].habits_count = 0
                    /\ items[k].sessions_count = 0
                    /\ items[k].total_planned_minutes = 0

\* The overview was just returned with two entries, one of them for a
\* sprint that has neither habits nor sessions.
C15_Witness ==
    /\ resp.op = "list_sprint_overview"
    /\ resp.result = overview_items
    /\ Len(resp.result) = 2
    /\ \E id \in DOMAIN sprints : SprintHabits(id) = {} /\ SprintSessions(id) = {}

\* C16: each overview entry reports the number of habits of its sprint, the
\* number of its sessions, the number of its done sessions, the sum of their
\* planned durations and, with sessions, done / sessions as completion_rate:
\* each habit and each session is counted once.
C16_OverviewFigures ==
    LET items == overview_items
    IN
        \A id \in DOMAIN sprints :
            \A k \in EntriesOf(items, id) :
                /\ items[k].habits_count = Cardinality(SprintHabits(id))
                /\ items[k].sessions_count = Cardinality(SprintSessions(id))
                /\ items[k].done_sessions = Cardinality(DoneSessions(id))
                /\ items[k].total_planned_minutes =
                       SumOf(SprintSessions(id), "planned_duration_min")
                /\ SprintSessions(id) # {} =>
                       IsQuotient(items[k].completion_rate,
                                  Cardinality(DoneSessions(id)),
                                  Cardinality(SprintSessions(id)))

\* The overview was just returned for a sprint with several habits and
\* several sessions, some done and some not.
C16_Witness ==
    /\ resp.op = "list_sprint_overview"
    /\ resp.result = overview_items
    /\ \E id \in DOMAIN sprints :
        /\ Cardinality(SprintHabits(id)) >= 2
        /\ Cardinality(SprintSessions(id)) >= 2
        /\ DoneSessions(id) # {}
        /\ DoneSessions(id) # SprintSessions(id)

\* The habit names and the session notes the demo seed writes
\* (5 "Felt productive", 6 "Needed rest"); no request input carries them.
SeedHabitNames == {"Morning math drills", "Evening recap notes"}

SeedNotes == {5, 6}

\* C17: whatever the store held, after seed_demo it holds exactly one
\* sprint, two habits and six sessions, all of them the seed's own, and the
\* statistics of that sprint report 6 sessions, 4 done, 2 skipped and a
\* completion rate of 4/6.
C17_SeedReplacesStore ==
    resp.op = "seed_demo" =>
        /\ Cardinality(DOMAIN sprints) = 1
        /\ DOMAIN sprints = {resp.result}
        /\ Cardinality(DOMAIN habits) = 2
        /\ Cardinality(DOMAIN sessions) = 6
        /\ \A h \in DOMAIN habits :
            /\ habits[h].sprint_id = resp.result
            /\ habits[h].name \in SeedHabitNames
        /\ \A i \in DOMAIN sessions :
            /\ sessions[i].sprint_id = resp.result
            /\ sessions[i].notes \in SeedNotes
        /\ LET st == sprint_stats_result(resp.result)
           IN  /\ st.total_sessions = 6
               /\ st.done_sessions = 4
               /\ st.skipped_sessions = 2
               /\ IsQuotient(st.completion_rate, 4, 6)

\* seed_demo was just served as the last of several requests and the store
\* holds the six seeded sessions, four of them done.
C17_Witness ==
    /\ resp.op = "seed_demo"
    /\ nreq = MaxRequests
    /\ Cardinality(DOMAIN sessions) = 6
    /\ Cardinality({i \in DOMAIN sessions : sessions[i].status = "done"}) = 4

\* C18: for every existing sprint the statistics report as
\* total_planned_minutes the sum of the planned durations of its sessions
\* and as total_actual_minutes the sum of the actual durations of exactly
\* its sessions that have one; each is the number 0, not null, when there
\* is nothing to sum.
C18_StatsMinuteSums ==
    \A id \in DOMAIN sprints :
        LET st == sprint_stats_result(id)
            with_actual == Having(SprintSessions(id), "actual_duration_min")
        IN  /\ st.total_planned_minutes # NULL
            /\ st.total_actual_minutes # NULL
            /\ st.total_planned_minutes = SumOf(SprintSessions(id), "planned_duration_min")
            /\ st.total_actual_minutes = SumOf(with_actual, "actual_duration_min")
            /\ SprintSessions(id) = {} => st.total_planned_minutes = 0
            /\ with_actual = {} => st.total_actual_minutes = 0

\* The statistics were just returned for a sprint where some sessions have
\* an actual duration and some have none.
C18_Witness ==
    /\ resp.op = "sprint_stats"
    /\ resp.status = 200
    /\ resp.result = sprint_stats_result(resp.id)
    /\ Having(SprintSessions(resp.id), "actual_duration_min") # {}
    /\ Having(SprintSessions(resp.id), "actual_duration_min") # SprintSessions(resp.id)
    /\ resp.result.total_actual_minutes > 0

\* The form requests that write to the store inside try / except
FormMutationOps ==
    {"create_habit_ui", "delete_habit_ui", "plan_session_ui", "complete_session_ui",
     "skip_session_ui"}

\* C19: when the commit of a mutating form request fails, the handler rolls
\* back and answers with an error, and the store is exactly what it was
\* before the request; a failed delete_habit_ui leaves the habit and every
\* one of its sessions in place.
C19_FailedCommitLeavesStore ==
    [][ (resp'.op \in FormMutationOps /\ resp'.rolled_back) =>
            /\ resp'.error
            /\ resp'.flash.error
            /\ StoreUnchanged
            /\ resp'.op = "delete_habit_ui" =>
                /\ resp'.id \in DOMAIN habits'
                /\ \A i \in DOMAIN sessions :
                    sessions[i].habit_id = resp'.id =>
                        i \in DOMAIN sessions' /\ sessions'[i] = sessions[i] ]_vars

\* delete_habit_ui just failed at its commit: the habit is still there, with
\* several sessions that reference it.
C19_Witness ==
    /\ resp.op = "delete_habit_ui"
    /\ resp.rolled_back
    /\ resp.error
    /\ resp.id \in DOMAIN habits
    /\ Cardinality({i \in DOMAIN sessions : sessions[i].habit_id = resp.id}) >= 2

\* The habit field names, by a number, no habit of sprint sprint_id.
NamesNoHabitOf(sprint_id, habit_field) ==
    /\ habit_field.kind = "int"
    /\ \/ habit_field.value \notin DOMAIN habits
       \/ habits[habit_field.value].sprint_id # sprint_id

\* The step just taken added exactly one session, for sprint sprint_id, with
\* status planned and with no habit or a habit of that sprint.
PlannedOneSession(sprint_id) ==
    /\ DOMAIN sessions' = DOMAIN sessions \cup {NextId(sessions)}
    /\ \A i \in DOMAIN sessions : sessions'[i] = sessions[i]
    /\ LET new == sessions'[NextId(sessions)]
       IN  /\ new.status = "planned"
           /\ new.sprint_id = sprint_id
           /\ \/ new.habit_id = NULL
              \/ /\ new.habit_id \in DOMAIN habits
                 /\ habits[new.habit_id].sprint_id = sprint_id

\* C20 as stated: plan_session_ui with a habit id that names no existing
\* habit, or a habit of another sprint than the path sprint, answers with an
\* error redirect and creates no session; when it succeeds the new session
\* is planned and its habit, if any, belongs to the path sprint.
C20_UnknownHabitAlwaysRefused ==
    [][ resp'.op = "plan_session_ui" =>
            /\ \A habit_field \in HabitFieldInputs, planned_start \in PlannedStartInputs,
                  planned \in FormPlannedInputs, notes \in FormNotesInputs,
                  committed \in CommitInputs :
                ( /\ NamesNoHabitOf(resp'.id, habit_field)
                  /\ plan_session_ui_request(resp'.id, habit_field, planned_start, planned,
                                             notes, committed) ) =>
                    /\ resp'.status = 303
                    /\ resp'.flash.error
                    /\ StoreUnchanged
            /\ WentThrough(resp') => PlannedOneSession(resp'.id) ]_vars

\* What plan_session_ui does to the store: a habit id other than 0 that
\* names no existing habit, or a habit of another sprint than the path
\* sprint, is refused and no session is stored; a habit field that is empty,
\* not a number, or 0 selects no habit, and the session is then planned
\* without one; a session that is planned has status planned and its habit,
\* if any, belongs to the path sprint.
PlanSessionUiRefusals ==
    [][ resp'.op = "plan_session_ui" =>
            /\ \A habit_field \in HabitFieldInputs, planned_start \in PlannedStartInputs,
                  planned \in FormPlannedInputs, notes \in FormNotesInputs,
                  committed \in CommitInputs :
                plan_session_ui_request(resp'.id, habit_field, planned_start, planned,
                                        notes, committed) =>
                    /\ (NamesNoHabitOf(resp'.id, habit_field) /\ habit_field.value # 0) =>
                            resp'.flash.error /\ StoreUnchanged
                    /\ ( /\ habit_field.kind # "int" \/ habit_field.value = 0
                         /\ resp'.id \in DOMAIN sprints
                         /\ planned >= 1
                         /\ committed ) =>
                            /\ WentThrough(resp')
                            /\ sessions'[NextId(sessions)].habit_id = NULL
            /\ WentThrough(resp') => PlannedOneSession(resp'.id) ]_vars

\* plan_session_ui just refused the habit selected for an existing sprint
\* while the store holds a habit of another sprint.
PlanSessionUiRefused ==
    /\ resp.op = "plan_session_ui"
    /\ resp.flash.message = "Invalid+habit+selected"
    /\ resp.id \in DOMAIN sprints
    /\ \E h \in DOMAIN habits : habits[h].sprint_id # resp.id

\* The columns of a session that a skip leaves alone, whatever the notes
SkipFrame(before, after) ==
    /\ after.actual_start = before.actual_start
    /\ after.actual_duration_min = before.actual_duration_min
    /\ after.difficulty = before.difficulty
    /\ after.mood = before.mood

\* C21: skipping an existing session, through the API or the form, sets its
\* status to skipped; its notes become the notes of the request when the
\* request supplies non-null notes and stay what they were otherwise (the
\* form supplies none); actual_start, actual_duration_min, difficulty and
\* mood are unchanged in every case.
C21_SkipKeepsTheRest ==
    [][ /\ resp'.op = "skip_session" =>
            \A notes \in {n \in SkipNotesInputs : ValidSessionSkip(n)} :
                ( /\ resp'.id \in DOMAIN sessions
                  /\ skip_session_request(resp'.id, notes) ) =>
                    /\ ~resp'.error
                    /\ sessions'[resp'.id].status = "skipped"
                    /\ sessions'[resp'.id].notes =
                           IF notes # NULL THEN notes ELSE sessions[resp'.id].notes
                    /\ SkipFrame(sessions[resp'.id], sessions'[resp'.id])
        /\ (resp'.op = "skip_session_ui" /\ WentThrough(resp')) =>
            /\ resp'.id \in DOMAIN sessions
            /\ sessions'[resp'.id].status = "skipped"
            /\ sessions'[resp'.id].notes = sessions[resp'.id].notes
            /\ SkipFrame(sessions[resp'.id], sessions'[resp'.id]) ]_vars

\* skip_session just skipped a seeded done session without supplying notes:
\* the session keeps its notes (5, "Felt productive"), its actual duration
\* and its ratings.
C21_Witness ==
    /\ resp.op = "skip_session"
    /\ resp.status = 200
    /\ sessions[resp.id].status = "skipped"
    /\ sessions[resp.id].notes = 5
    /\ sessions[resp.id].actual_duration_min = 55
    /\ sessions[resp.id].difficulty # NULL

\* C22: after complete_session succeeds, the session's actual_start,
\* actual_duration_min, notes, difficulty and mood are exactly those of the
\* request payload: a notes, difficulty or mood the payload omits is stored
\* as null, whatever the session held before.
C22_CompleteStoresPayload ==
    [][ resp'.op = "complete_session" =>
            \A payload \in SessionCompleteInputs :
                ( /\ ~resp'.error
                  /\ complete_session_request(resp'.id, payload) ) =>
                    /\ resp'.id \in DOMAIN sessions'
                    /\ sessions'[resp'.id].actual_start = payload.actual_start
                    /\ sessions'[resp'.id].actual_duration_min = payload.actual_duration_min
                    /\ sessions'[resp'.id].notes = payload.notes
                    /\ sessions'[resp'.id].difficulty = payload.difficulty
                    /\ sessions'[resp'.id].mood = payload.mood ]_vars

\* complete_session just succeeded on a seeded session (planned 45 or 60
\* minutes, seeded with notes, difficulty and mood) with a payload that
\* omits the three: they are null now.
C22_Witness ==
    /\ resp.op = "complete_session"
    /\ resp.status = 200
    /\ sessions[resp.id].planned_duration_min \in {45, 60}
    /\ sessions[resp.id].actual_duration_min = 40
    /\ sessions[resp.id].notes = NULL
    /\ sessions[resp.id].difficulty = NULL
    /\ sessions[resp.id].mood = NULL

\* C24: for every existing sprint the overview entry and the detailed
\* statistics agree on the number of sessions, the number of done sessions
\* and the planned minutes; on the completion rate when the sprint has a
\* session, and on the actual minutes when a session has an actual
\* duration; in the empty cases the overview has null where the statistics
\* have 0.
C24_OverviewAgreesWithStats ==
    LET items == overview_items
    IN  \A id \in DOMAIN sprints :
            LET st == sprint_stats_result(id)
            IN  /\ EntriesOf(items, id) # {}
                /\ \A k \in EntriesOf(items, id) :
                    /\ items[k].sessions_count = st.total_sessions
                    /\ items[k].done_sessions = st.done_sessions
                    /\ items[k].total_planned_minutes = st.total_planned_minutes
                    /\ IF SprintSessions(id) # {}
                       THEN items[k].completion_rate = st.completion_rate
                       ELSE /\ items[k].completion_rate = NoValue
                            /\ st.completion_rate = Frac(0, 1)
                    /\ IF Having(SprintSessions(id), "actual_duration_min") # {}
                       THEN items[k].total_actual_minutes = st.total_actual_minutes
                       ELSE /\ items[k].total_actual_minutes = NULL
                            /\ st.total_actual_minutes = 0

\* The statistics were just returned for a sprint with done sessions and
\* actual durations, next to a sprint without sessions, where the two
\* reports differ in null versus 0.
C24_Witness ==
    /\ resp.op = "sprint_stats"
    /\ resp.status = 200
    /\ resp.result = sprint_stats_result(resp.id)
    /\ resp.result.done_sessions > 0
    /\ resp.result.total_actual_minutes > 0
    /\ \E other \in DOMAIN sprints : other # resp.id /\ SprintSessions(other) = {}

\* The references and the plan of a session row; its id is the key under
\* which the table holds it.
PlanFrame(before, after) ==
    /\ after.sprint_id = before.sprint_id
    /\ after.habit_id = before.habit_id
    /\ after.planned_start = before.planned_start
    /\ after.planned_duration_min = before.planned_duration_min

\* C26: completing or skipping a session, through the API or the form
\* handlers, keeps the session's id, sprint_id, habit_id, planned_start and
\* planned_duration_min, keeps every other session as it was, and keeps the
\* number of sprints, habits and sessions.
C26_TransitionFrame ==
    [][ resp'.op \in TransitionOps =>
            /\ Cardinality(DOMAIN sprints') = Cardinality(DOMAIN sprints)
            /\ Cardinality(DOMAIN habits') = Cardinality(DOMAIN habits)
            /\ Cardinality(DOMAIN sessions') = Cardinality(DOMAIN sessions)
            /\ DOMAIN sessions' = DOMAIN sessions
            /\ \A sid \in DOMAIN sessions :
                   IF sid = resp'.id
                   THEN PlanFrame(sessions[sid], sessions'[sid])
                   ELSE sessions'[sid] = sessions[sid] ]_vars

\* A form request has just skipped a session that belongs to a habit, in a
\* store holding other sessions.
C26_Witness ==
    /\ resp.op = "skip_session_ui"
    /\ WentThrough(resp)
    /\ resp.id \in DOMAIN sessions
    /\ sessions[resp.id].status = "skipped"
    /\ sessions[resp.id].habit_id # NULL
    /\ Cardinality(DOMAIN sessions) > 1

\* The requests that act on one sprint, or on a habit or a session of it.
SprintScopedOps ==
    {"create_habit", "create_habit_ui", "create_session", "plan_session_ui",
     "update_sprint_status", "delete_habit_ui"} \cup TransitionOps

\* The sprint the request answered by r acted on: the path sprint, the
\* sprint of the addressed session, or the sprint of the addressed habit;
\* null when the addressed row does not exist.
TargetSprint(r) ==
    IF r.op \in TransitionOps
    THEN IF r.id \in DOMAIN sessions THEN sessions[r.id].sprint_id ELSE NULL
    ELSE IF r.op = "delete_habit_ui"
    THEN IF r.id \in DOMAIN habits THEN habits[r.id].sprint_id ELSE NULL
    ELSE r.id

\* C25: creating a habit or a session in sprint A, completing or skipping a
\* session of sprint A, deleting a habit of sprint A, or updating the status
\* of sprint A leaves the overview entry and the detailed statistics of
\* every other sprint B unchanged.
C25_OtherSprintsUnchanged ==
    [][ resp'.op \in SprintScopedOps =>
            \A b \in DOMAIN sprints \ {TargetSprint(resp')} :
                /\ b \in DOMAIN sprints'
                /\ OverviewItem(b)' = OverviewItem(b)
                /\ sprint_stats_result(b)' = sprint_stats_result(b) ]_vars

\* The same frame without the deletion of a habit.
OtherSprintsUnchanged_NoDelete ==
    [][ resp'.op \in SprintScopedOps \ {"delete_habit_ui"} =>
            \A b \in DOMAIN sprints \ {TargetSprint(resp')} :
                /\ b \in DOMAIN sprints'
                /\ OverviewItem(b)' = OverviewItem(b)
                /\ sprint_stats_result(b)' = sprint_stats_result(b) ]_vars

\* The store of TwoSprintsInit, reached by three requests from the empty store.
TwoSprintsReached ==
    /\ DOMAIN sprints = {1, 2}
    /\ DOMAIN habits = {1}
    /\ habits[1] = [sprint_id |-> 1, name |-> "read", target_sessions_per_day |-> 1]
    /\ sprints[1].status = "planned"
    /\ sprints[2].status = "planned"
    /\ sessions = EmptyTable

\* Every stored session and habit references a stored sprint.
ReferencesHold ==
    /\ \A s \in DOMAIN sessions : sessions[s].sprint_id \in DOMAIN sprints
    /\ \A h \in DOMAIN habits : habits[h].sprint_id \in DOMAIN sprints

\* The step in which a seed_demo request commits
SeedCommits ==
    /\ nreq' = nreq + 1
    /\ (nreq + 1) \in DOMAIN inflight'
    /\ inflight'[nreq + 1].op = "seed_demo"

\* The state holds the rows of one seed_demo and no others: its sprint, its
\* two habits and its six sessions.
SeedStored ==
    /\ Cardinality(DOMAIN sprints) = 1
    /\ \A b \in DOMAIN sprints : sprints[b].status = "active"
    /\ Cardinality(DOMAIN habits) = 2
    /\ \A h \in DOMAIN habits :
        habits[h].name \in SeedHabitNames /\ habits[h].sprint_id \in DOMAIN sprints
    /\ Cardinality(DOMAIN sessions) = 6
    /\ \A s \in DOMAIN sessions :
        /\ sessions[s].notes \in SeedNotes
        /\ sessions[s].sprint_id \in DOMAIN sprints
        /\ sessions[s].habit_id \in DOMAIN habits

\* The writes of a request reach the store whole, in the step of its commit:
\* when seed_demo commits, all of its rows are stored and every row it
\* deleted is gone; when delete_habit_ui is answered with success, the habit
\* and every session it selected are gone.
WritesWhole ==
    /\ SeedCommits => SeedStored'
    /\ \A q \in DOMAIN inflight \ DOMAIN inflight' :
        ( /\ inflight[q].op = "delete_habit_ui"
          /\ WentThrough(resp') ) =>
            /\ inflight[q].id \notin DOMAIN habits'
            /\ inflight[q].selected \cap DOMAIN sessions' = {}

\* No request's writes are visible in part.
CommitsWhole == [][WritesWhole]_vars

\* C23: when requests interleave between a handler's lookup of the sprint
\* and its commit, every stored session and habit still references an
\* existing sprint, and no request's writes are stored in part.
C23_ConcurrentReferences == []ReferencesHold /\ [][WritesWhole]_vars

====
